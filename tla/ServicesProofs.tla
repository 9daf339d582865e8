---------------------------- MODULE ServicesProofs ----------------------------
(***************************************************************************)
(* The services around the adverts, proved for any adverts, people,        *)
(* requests and bounds: what a post costs, days of TOP, the rate and the   *)
(* prices, the catalogue, tours, pictures, what people do to a reel, the   *)
(* desk, and how a list is read.  Each has its inductive invariant; the    *)
(* last section puts them together.                                        *)
(***************************************************************************)
EXTENDS MCServices, FiniteSetTheorems, SequenceTheorems, TLAPS

(***************************************************************************)
(* What a post costs (Charging)                                            *)
(***************************************************************************)
BillType ==
    [user : Sellers, amount : Int, after : Nat, kind : {"LISTING_POST", "ADMIN_ADJUST"},
     ref : Ads \cup {None}, key : Keys \cup {None}]

SaveCalls == [at : {"save"}, ad : Ads, terms : {"free", "grant", "money"}, priced : BOOLEAN]
AdjustCalls == [at : {"adjust"}, user : Sellers, amount : {Gift, -Gift}, key : Keys]
ChargeCalls == {Idle} \cup [at : {"charge"}, ad : Ads] \cup SaveCalls \cup AdjustCalls

ChargeTyped ==
    /\ ChargingTypeOK
    /\ bills \in Seq(BillType)
    /\ chargeCalls \in [Requests -> ChargeCalls]
    /\ resets \in [Sellers -> Nat]
    /\ due \subseteq posted /\ IsFiniteSet(due)

Posting(r) == chargeCalls[r].at \in {"charge", "save"}
Charged(r) == chargeCalls[r].at = "save" /\ chargeCalls[r].terms # "free"

(* An advert being posted is not there yet, and one request posts it.      *)
PostsApart ==
    /\ \A r \in Requests : Posting(r) => chargeCalls[r].ad \notin posted
    /\ \A r, q \in Requests :
          Posting(r) /\ Posting(q) /\ chargeCalls[r].ad = chargeCalls[q].ad => r = q

(* What a transaction was charged stays so until it ends: the grant it     *)
(* took is nobody else's, nor is the wallet row.                           *)
TermsStand ==
    /\ \A r \in Requests : chargeCalls[r].at = "save" =>
          /\ chargeCalls[r].priced <=> chargeCalls[r].terms # "free"
          /\ chargeCalls[r].terms = "grant" => grant[SellerOf[chargeCalls[r].ad]] = None
    /\ \A r, q \in Requests :
          Charged(r) /\ Charged(q)
            /\ SellerOf[chargeCalls[r].ad] = SellerOf[chargeCalls[q].ad] => r = q

PostBills(l) == {i \in DOMAIN bills : bills[i].kind = "LISTING_POST" /\ bills[i].ref = l}
OnTheHouse(u) == {l \in due : SellerOf[l] = u /\ PostBills(l) = {}}
GrantUsed(u) == IF grant[u] = None THEN 0 ELSE 1

PaidOnce == \A l \in Ads : \A i, j \in PostBills(l) : i = j /\ l \in due

FreePosts ==
    \A u \in Sellers : /\ grant[u] \in posted \cup {None}
                       /\ Cardinality(OnTheHouse(u)) <= resets[u] + GrantUsed(u)

KeysOnce ==
    \A i, j \in DOMAIN bills :
       bills[i].user = bills[j].user /\ bills[i].key = bills[j].key
         /\ bills[i].key \in Keys => i = j

Books ==
    \A u \in Sellers :
       /\ Leaves(u, Len(bills), purse[u])
       /\ \A i \in DOMAIN bills : bills[i].user = u =>
             Leaves(u, i - 1, bills[i].after - bills[i].amount)

ChargingInv ==
    /\ ChargeTyped /\ PostsApart /\ TermsStand
    /\ PaidOnce /\ FreePosts /\ KeysOnce /\ Books

-----------------------------------------------------------------------------
(* What a request in flight holds.                                         *)
LEMMA ChargeCallTypes ==
    ASSUME ChargeTyped, NEW r \in Requests
    PROVE  /\ chargeCalls \in [Requests -> ChargeCalls]
           /\ Posting(r) => chargeCalls[r].ad \in Ads
           /\ chargeCalls[r].at = "save" => chargeCalls[r] \in SaveCalls
           /\ chargeCalls[r].at = "adjust" => chargeCalls[r] \in AdjustCalls
BY DEF ChargeTyped, ChargeCalls, SaveCalls, AdjustCalls, Posting, Idle

(* The seller of an advert is one of the sellers.                          *)
LEMMA SellersSell == \A l \in Ads : SellerOf[l] \in Sellers
BY DEF Sellers

(* One request goes on, the others stay where they are.                    *)
LEMMA ChargeGoesTo ==
    ASSUME ChargeTyped, NEW r \in Requests, NEW call \in ChargeCalls, ChargeGoes(r, call)
    PROVE  /\ chargeCalls' \in [Requests -> ChargeCalls] /\ chargeCalls'[r] = call
           /\ \A q \in Requests : q # r => chargeCalls'[q] = chargeCalls[q]
BY DEF ChargeTyped, ChargeGoes

(* What writes no row keeps what is said of the rows.                      *)
LEMMA ChargeRowsKept ==
    ASSUME ChargingInv, chargeCalls' \in [Requests -> ChargeCalls],
           postTariff' \in BOOLEAN \/ postTariff' = postTariff,
           UNCHANGED <<posted, money, grant, resets, due>>
    PROVE  ChargeTyped' /\ PaidOnce' /\ FreePosts' /\ KeysOnce' /\ Books'
<1>1. UNCHANGED <<posted, purse, bills, grant, resets, due>>
  BY DEF money
<1>2. ChargeTyped'
  BY <1>1 DEF ChargingInv, ChargeTyped, ChargingTypeOK
<1>3. \A l : PostBills(l)' = PostBills(l)
  BY <1>1 DEF PostBills
<1>4. PaidOnce'
  BY <1>1, <1>3 DEF ChargingInv, PaidOnce
<1>5. \A u : OnTheHouse(u)' = OnTheHouse(u) /\ GrantUsed(u)' = GrantUsed(u)
  BY <1>1, <1>3 DEF OnTheHouse, GrantUsed
<1>6. FreePosts'
  BY <1>1, <1>5 DEF ChargingInv, FreePosts
<1>7. KeysOnce'
  BY <1>1 DEF ChargingInv, KeysOnce
<1>8. Books'
  BY <1>1 DEF ChargingInv, Books, Leaves
<1> QED
  BY <1>2, <1>4, <1>6, <1>7, <1>8

(* A request that ends leaves the others as they were.                     *)
LEMMA ChargeEnds ==
    ASSUME ChargingInv, NEW r \in Requests, ChargeGoes(r, Idle),
           UNCHANGED <<posted, grant>>
    PROVE  PostsApart' /\ TermsStand' /\ chargeCalls' \in [Requests -> ChargeCalls]
<1>1. Idle \in ChargeCalls /\ ChargeTyped
  BY DEF ChargeCalls, ChargingInv
<1>2. /\ chargeCalls' \in [Requests -> ChargeCalls] /\ chargeCalls'[r] = Idle
      /\ \A q \in Requests : q # r => chargeCalls'[q] = chargeCalls[q]
  BY <1>1, ChargeGoesTo
<1>3. ~Posting(r)' /\ ~Charged(r)' /\ chargeCalls'[r].at # "save"
  BY <1>2 DEF Posting, Charged, Idle
<1>4. \A q \in Requests : q # r => (Posting(q)' <=> Posting(q)) /\ (Charged(q)' <=> Charged(q))
  BY <1>2 DEF Posting, Charged
<1>5. PostsApart'
  BY <1>2, <1>3, <1>4 DEF ChargingInv, PostsApart
<1>6. TermsStand'
  BY <1>2, <1>3, <1>4 DEF ChargingInv, TermsStand
<1> QED
  BY <1>2, <1>5, <1>6

-----------------------------------------------------------------------------
(* The steps                                                               *)

(* A post is asked for, of an advert nobody else is posting.               *)
LEMMA AskPostInv ==
    ASSUME ChargingInv, NEW r \in Requests, NEW l \in Ads, AskPost(r, l)
    PROVE  ChargingInv'
<1> DEFINE call == [at |-> "charge", ad |-> l]
<1>1. /\ call \in ChargeCalls /\ ChargeTyped /\ ChargeGoes(r, call)
      /\ UNCHANGED <<posted, money, grant, postTariff, resets, due>>
      /\ l \notin posted
      /\ \A q \in Requests : ~(Posting(q) /\ chargeCalls[q].ad = l)
  BY DEF ChargeCalls, ChargingInv, AskPost, Posting
<1>2. /\ chargeCalls' \in [Requests -> ChargeCalls] /\ chargeCalls'[r] = call
      /\ \A q \in Requests : q # r => chargeCalls'[q] = chargeCalls[q]
  BY <1>1, ChargeGoesTo
<1>3. ChargeTyped' /\ PaidOnce' /\ FreePosts' /\ KeysOnce' /\ Books'
  BY <1>1, <1>2, ChargeRowsKept
<1>4. /\ chargeCalls'[r].ad = l /\ ~Charged(r)' /\ chargeCalls'[r].at # "save"
      /\ \A q \in Requests :
           q # r => (Posting(q)' <=> Posting(q)) /\ (Charged(q)' <=> Charged(q))
  BY <1>2 DEF Posting, Charged
<1>5. PostsApart'
  BY <1>1, <1>2, <1>4 DEF ChargingInv, PostsApart
<1>6. TermsStand'
  BY <1>1, <1>2, <1>4 DEF ChargingInv, TermsStand
<1> QED
  BY <1>3, <1>5, <1>6 DEF ChargingInv

(* The charge takes what nobody who has not ended holds.                   *)
LEMMA ChargePostInv ==
    ASSUME ChargingInv, NEW r \in Requests, ChargePost(r)
    PROVE  ChargingInv'
<1>1. /\ ChargeTyped /\ chargeCalls[r].at = "charge" /\ Posting(r)
      /\ UNCHANGED <<posted, money, grant, postTariff, resets, due>>
  BY DEF ChargingInv, ChargePost, Posting
<1>2. PICK l \in Ads : l = chargeCalls[r].ad
  BY <1>1, ChargeCallTypes
<1>3. Free(r, SellerOf[l])
  BY <1>2 DEF ChargePost
<1>4. CASE ChargeGoes(r, Idle)
  <2>1. PostsApart' /\ TermsStand' /\ chargeCalls' \in [Requests -> ChargeCalls]
    BY <1>1, <1>4, ChargeEnds
  <2> QED
    BY <1>1, <2>1, ChargeRowsKept DEF ChargingInv
<1>5. CASE ~ChargeGoes(r, Idle)
  <2>1. PICK t : t = Terms(SellerOf[l])
    OBVIOUS
  <2>2. PICK p : p = (postTariff /\ SellerOf[l] \notin Staff)
    OBVIOUS
  <2> DEFINE call == [at |-> "save", ad |-> l, terms |-> t, priced |-> p]
  <2>3. ChargeGoes(r, call)
    BY <1>2, <1>5, <2>1, <2>2 DEF ChargePost
  <2>4. /\ t \in {"free", "grant", "money"} /\ p \in BOOLEAN
        /\ p <=> t # "free"
        /\ t = "grant" => grant[SellerOf[l]] = None
    BY <2>1, <2>2 DEF Terms
  <2>5. call \in ChargeCalls
    BY <2>4 DEF ChargeCalls, SaveCalls
  <2>6. /\ chargeCalls' \in [Requests -> ChargeCalls] /\ chargeCalls'[r] = call
        /\ \A q \in Requests : q # r => chargeCalls'[q] = chargeCalls[q]
    BY <1>1, <2>3, <2>5, ChargeGoesTo
  <2>7. ChargeTyped' /\ PaidOnce' /\ FreePosts' /\ KeysOnce' /\ Books'
    BY <1>1, <2>6, ChargeRowsKept
  <2>8. /\ chargeCalls'[r].ad = l /\ chargeCalls'[r].at = "save" /\ chargeCalls'[r].terms = t
        /\ chargeCalls'[r].priced = p
        /\ \A q \in Requests :
             q # r => (Posting(q)' <=> Posting(q)) /\ (Charged(q)' <=> Charged(q))
    BY <2>6 DEF Posting, Charged
  <2>9. PostsApart'
    BY <1>1, <1>2, <2>6, <2>8 DEF ChargingInv, PostsApart
  <2>10. \A q \in Requests \ {r} : Charged(q) => SellerOf[chargeCalls[q].ad] # SellerOf[l]
    BY <1>3 DEF Free, Charged
  <2>11. TermsStand'
    BY <1>1, <2>4, <2>6, <2>8, <2>10 DEF ChargingInv, TermsStand
  <2> QED
    BY <2>7, <2>9, <2>11 DEF ChargingInv
<1> QED
  BY <1>4, <1>5

(* What rolls back, is asked for, or changes the tariff writes no row.     *)
LEMMA NoRowInv ==
    ASSUME ChargingInv,
           \/ \E r \in Requests :
                \/ FailPost(r)
                \/ \E u \in Sellers, amount \in {Gift, -Gift}, key \in Keys :
                     AskAdjust(r, u, amount, key)
           \/ \E active \in BOOLEAN : SetPostTariff(active)
           \/ UNCHANGED chargeVars
    PROVE  ChargingInv'
<1>1. ASSUME NEW r \in Requests, FailPost(r) PROVE ChargingInv'
  <2>1. ChargeGoes(r, Idle) /\ UNCHANGED <<posted, money, grant, postTariff, resets, due>>
    BY <1>1 DEF FailPost
  <2>2. PostsApart' /\ TermsStand' /\ chargeCalls' \in [Requests -> ChargeCalls]
    BY <2>1, ChargeEnds
  <2> QED
    BY <2>1, <2>2, ChargeRowsKept DEF ChargingInv
<1>2. ASSUME NEW r \in Requests, NEW u \in Sellers, NEW amount \in {Gift, -Gift},
             NEW key \in Keys, AskAdjust(r, u, amount, key)
      PROVE  ChargingInv'
  <2> DEFINE call == [at |-> "adjust", user |-> u, amount |-> amount, key |-> key]
  <2>1. /\ call \in ChargeCalls /\ ChargeTyped /\ ChargeGoes(r, call)
        /\ UNCHANGED <<posted, money, grant, postTariff, resets, due>>
    BY <1>2 DEF ChargeCalls, AdjustCalls, ChargingInv, AskAdjust
  <2>2. /\ chargeCalls' \in [Requests -> ChargeCalls] /\ chargeCalls'[r] = call
        /\ \A q \in Requests : q # r => chargeCalls'[q] = chargeCalls[q]
    BY <2>1, ChargeGoesTo
  <2>3. ChargeTyped' /\ PaidOnce' /\ FreePosts' /\ KeysOnce' /\ Books'
    BY <2>1, <2>2, ChargeRowsKept
  <2>4. /\ ~Posting(r)' /\ ~Charged(r)' /\ chargeCalls'[r].at # "save"
        /\ \A q \in Requests :
             q # r => (Posting(q)' <=> Posting(q)) /\ (Charged(q)' <=> Charged(q))
    BY <2>2 DEF Posting, Charged
  <2>5. PostsApart'
    BY <2>1, <2>2, <2>4 DEF ChargingInv, PostsApart
  <2>6. TermsStand'
    BY <2>1, <2>2, <2>4 DEF ChargingInv, TermsStand
  <2> QED
    BY <2>3, <2>5, <2>6 DEF ChargingInv
<1>3. ASSUME UNCHANGED chargeCalls, UNCHANGED <<posted, money, grant, resets, due>>,
             postTariff' \in BOOLEAN \/ postTariff' = postTariff
      PROVE  ChargingInv'
  <2>1. chargeCalls' \in [Requests -> ChargeCalls]
    BY <1>3 DEF ChargingInv, ChargeTyped
  <2>2. \A q \in Requests : (Posting(q)' <=> Posting(q)) /\ (Charged(q)' <=> Charged(q))
    BY <1>3 DEF Posting, Charged
  <2>3. PostsApart' /\ TermsStand'
    BY <1>3, <2>2 DEF ChargingInv, PostsApart, TermsStand
  <2> QED
    BY <1>3, <2>1, <2>3, ChargeRowsKept DEF ChargingInv
<1> QED
  BY <1>1, <1>2, <1>3 DEF SetPostTariff, chargeVars, money

(* A free post that is given back is one more the account may use.         *)
LEMMA GiveBackInv ==
    ASSUME ChargingInv, NEW u \in Sellers, GiveBack(u)
    PROVE  ChargingInv'
<1>1. /\ ChargeTyped /\ grant \in [Sellers -> Ads \cup {None}] /\ resets \in [Sellers -> Nat]
      /\ grant[u] # None /\ grant' = [grant EXCEPT ![u] = None]
      /\ UNCHANGED <<posted, purse, bills, postTariff, chargeCalls, due>>
  BY DEF ChargingInv, ChargeTyped, ChargingTypeOK, GiveBack, money
<1>2. PICK n \in Nat : n = resets[u] + 1 /\ resets' = [resets EXCEPT ![u] = n]
  <2>1. resets[u] + 1 \in Nat
    BY <1>1
  <2>2. resets' = [resets EXCEPT ![u] = resets[u] + 1]
    BY DEF GiveBack
  <2> QED
    BY <2>1, <2>2
<1>3. ChargeTyped'
  BY <1>1, <1>2 DEF ChargeTyped, ChargingTypeOK
<1>4. \A l : PostBills(l)' = PostBills(l)
  BY <1>1 DEF PostBills
<1>5. PaidOnce' /\ KeysOnce' /\ Books'
  BY <1>1, <1>4 DEF ChargingInv, PaidOnce, KeysOnce, Books, Leaves
<1>6. \A q \in Requests : (Posting(q)' <=> Posting(q)) /\ (Charged(q)' <=> Charged(q))
  BY <1>1 DEF Posting, Charged
<1>7. PostsApart'
  BY <1>1, <1>6 DEF ChargingInv, PostsApart
<1>8. TermsStand'
  <2>1. ASSUME NEW r \in Requests, chargeCalls[r].at = "save", chargeCalls[r].terms = "grant"
        PROVE  grant'[SellerOf[chargeCalls[r].ad]] = None
    <3>1. grant[SellerOf[chargeCalls[r].ad]] = None
      BY <2>1 DEF ChargingInv, TermsStand
    <3>2. SellerOf[chargeCalls[r].ad] \in Sellers
      BY <1>1, <2>1, ChargeCallTypes, SellersSell DEF Posting
    <3> QED
      BY <1>1, <3>1, <3>2
  <2> QED
    BY <1>1, <1>6, <2>1 DEF ChargingInv, TermsStand
<1>9. FreePosts'
  <2> SUFFICES ASSUME NEW v \in Sellers
               PROVE  /\ grant'[v] \in posted' \cup {None}
                      /\ Cardinality(OnTheHouse(v)') <= resets'[v] + GrantUsed(v)'
    BY DEF FreePosts
  <2>1. OnTheHouse(v)' = OnTheHouse(v)
    BY <1>1, <1>4 DEF OnTheHouse
  <2>2. /\ grant[v] \in posted \cup {None}
        /\ Cardinality(OnTheHouse(v)) <= resets[v] + GrantUsed(v)
    BY DEF ChargingInv, FreePosts
  <2>3. resets'[v] + GrantUsed(v)' = resets[v] + GrantUsed(v)
    BY <1>1, <1>2 DEF GrantUsed
  <2> QED
    BY <1>1, <2>1, <2>2, <2>3
<1> QED
  BY <1>3, <1>5, <1>7, <1>8, <1>9 DEF ChargingInv

-----------------------------------------------------------------------------
(* A movement adds one row, whose balance_after is the new balance.        *)
LEMMA MovesAdds ==
    ASSUME ChargeTyped, Books, NEW u \in Sellers, NEW amount \in Int,
           NEW kind \in {"LISTING_POST", "ADMIN_ADJUST"}, NEW ref \in Ads \cup {None},
           NEW key \in Keys \cup {None}, Moves(u, amount, kind, ref, key)
    PROVE  /\ purse' \in [Sellers -> Nat] /\ bills' \in Seq(BillType)
           /\ Len(bills) \in Nat /\ Len(bills') = Len(bills) + 1 /\ Len(bills') <= MaxBills
           /\ DOMAIN bills = 1 .. Len(bills) /\ DOMAIN bills' = 1 .. (Len(bills) + 1)
           /\ \A i \in 1 .. Len(bills) : bills'[i] = bills[i]
           /\ bills'[Len(bills) + 1] = Bill(u, amount, kind, ref, key)
           /\ Books'
<1> DEFINE n == Len(bills)
<1>1. /\ bills \in Seq(BillType) /\ n \in Nat /\ DOMAIN bills = 1 .. n
      /\ purse \in [Sellers -> Nat] /\ MaxBills \in Nat
  BY ChargingBounds DEF ChargeTyped, ChargingTypeOK
<1>2. PICK x \in Nat : x = purse[u] + amount
  <2>1. purse[u] \in Nat
    BY <1>1
  <2> QED
    BY <2>1 DEF Moves
<1>3. PICK row \in BillType : row = Bill(u, amount, kind, ref, key)
  BY <1>2 DEF Bill, BillType
<1>4. row.user = u /\ row.amount = amount /\ row.after = x
  BY <1>2, <1>3 DEF Bill
<1>5. /\ purse' = [purse EXCEPT ![u] = x] /\ bills' = Append(bills, row) /\ n < MaxBills
  BY <1>2, <1>3 DEF Moves
<1>6. /\ bills' \in Seq(BillType) /\ Len(bills') = n + 1 /\ DOMAIN bills' = 1 .. (n + 1)
      /\ \A i \in 1 .. n : bills'[i] = bills[i]
      /\ bills'[n + 1] = row
  BY <1>1, <1>5
<1>7. purse' \in [Sellers -> Nat]
  BY <1>1, <1>5
<1>8. ASSUME NEW v, NEW i \in 0 .. n, NEW y, Leaves(v, i, y) PROVE Leaves(v, i, y)'
  <2>1. \A j \in 1 .. i : bills'[j] = bills[j]
    BY <1>1, <1>6
  <2>2. i \in Nat
    BY <1>1
  <2>3. CASE y = 0 /\ \A j \in 1 .. i : bills[j].user # v
    BY <2>1, <2>3 DEF Leaves
  <2>4. ASSUME NEW k \in 1 .. i, bills[k].user = v, bills[k].after = y,
               \A j \in k + 1 .. i : bills[j].user # v
        PROVE  Leaves(v, i, y)'
    <3>1. \A j \in k + 1 .. i : bills'[j].user # v
      BY <2>1, <2>2, <2>4
    <3> QED
      BY <2>1, <2>4, <3>1 DEF Leaves
  <2>5. \/ y = 0 /\ \A j \in 1 .. i : bills[j].user # v
        \/ \E k \in 1 .. i : /\ bills[k].user = v /\ bills[k].after = y
                             /\ \A j \in k + 1 .. i : bills[j].user # v
    BY <1>8 DEF Leaves
  <2> QED
    BY <2>3, <2>4, <2>5
<1>9. Books'
  <2> SUFFICES ASSUME NEW v \in Sellers
               PROVE  /\ Leaves(v, Len(bills), purse[v])'
                      /\ \A i \in 1 .. (n + 1) : bills'[i].user = v =>
                           Leaves(v, i - 1, bills[i].after - bills[i].amount)'
    BY <1>6 DEF Books
  <2>1. /\ Leaves(v, n, purse[v])
        /\ \A i \in 1 .. n : bills[i].user = v =>
             Leaves(v, i - 1, bills[i].after - bills[i].amount)
    BY <1>1 DEF Books
  <2>2. Leaves(v, Len(bills), purse[v])'
    <3>1. CASE v = u
      <4>1. purse'[v] = x /\ bills'[n + 1].user = v /\ bills'[n + 1].after = x
        BY <1>1, <1>4, <1>5, <1>6, <3>1
      <4>2. \A j \in n + 1 + 1 .. n + 1 : FALSE
        BY <1>1
      <4> QED
        BY <1>1, <1>6, <4>1, <4>2 DEF Leaves
    <3>2. CASE v # u
      <4>1. purse'[v] = purse[v] /\ bills'[n + 1].user # v
        BY <1>1, <1>4, <1>5, <1>6, <3>2
      <4>2. CASE purse[v] = 0 /\ \A j \in 1 .. n : bills[j].user # v
        <5>1. \A j \in 1 .. (n + 1) : bills'[j].user # v
          BY <1>1, <1>6, <4>1, <4>2
        <5> QED
          BY <1>6, <4>1, <4>2, <5>1 DEF Leaves
      <4>3. CASE \E i \in 1 .. n : /\ bills[i].user = v /\ bills[i].after = purse[v]
                                   /\ \A j \in i + 1 .. n : bills[j].user # v
        <5>1. PICK i \in 1 .. n : /\ bills[i].user = v /\ bills[i].after = purse[v]
                                  /\ \A j \in i + 1 .. n : bills[j].user # v
          BY <4>3
        <5>2. bills'[i].user = v /\ bills'[i].after = purse'[v] /\ i \in 1 .. (n + 1)
          BY <1>1, <1>6, <4>1, <5>1
        <5>3. ASSUME NEW j \in i + 1 .. n + 1 PROVE bills'[j].user # v
          <6>1. j = n + 1 \/ (j \in 1 .. n /\ j \in i + 1 .. n)
            BY <1>1
          <6> QED
            BY <1>6, <4>1, <5>1, <6>1
        <5> QED
          BY <1>6, <5>2, <5>3 DEF Leaves
      <4> QED
        BY <2>1, <4>2, <4>3 DEF Leaves
    <3> QED
      BY <3>1, <3>2
  <2>3. ASSUME NEW i \in 1 .. (n + 1), bills'[i].user = v
        PROVE  Leaves(v, i - 1, bills[i].after - bills[i].amount)'
    <3>1. PICK y : y = bills'[i].after - bills'[i].amount
      OBVIOUS
    <3>2. Leaves(v, i - 1, y)
      <4>1. CASE i = n + 1
        <5>1. v = u /\ y = purse[u]
          <6>1. y = x - amount /\ purse[u] \in Nat
            BY <1>1, <1>4, <1>6, <2>3, <3>1, <4>1
          <6> QED
            BY <1>2, <1>4, <1>6, <2>3, <4>1, <6>1
        <5>2. i - 1 = n
          BY <1>1, <4>1
        <5> QED
          BY <2>1, <5>1, <5>2
      <4>2. CASE i # n + 1
        <5>1. i \in 1 .. n /\ bills'[i] = bills[i]
          BY <1>1, <1>6, <2>3, <4>2
        <5> QED
          BY <2>1, <2>3, <3>1, <5>1
      <4> QED
        BY <4>1, <4>2
    <3>3. i - 1 \in 0 .. n
      BY <1>1
    <3>4. PICK k \in 0 .. n : k = i - 1
      BY <3>3
    <3>5. Leaves(v, k, y)'
      BY <1>8, <3>2, <3>4
    <3> QED
      BY <3>1, <3>4, <3>5
  <2> QED
    BY <2>2, <2>3
<1> QED
  BY <1>1, <1>3, <1>5, <1>6, <1>7, <1>9

(* An adjustment: its key was not used before.                             *)
LEMMA AdjustInv ==
    ASSUME ChargingInv, NEW r \in Requests, Adjust(r)
    PROVE  ChargingInv'
<1>1. /\ ChargeTyped /\ chargeCalls[r].at = "adjust" /\ ChargeGoes(r, Idle)
      /\ UNCHANGED <<posted, grant, postTariff, resets, due>>
  BY DEF ChargingInv, Adjust
<1>2. PostsApart' /\ TermsStand' /\ chargeCalls' \in [Requests -> ChargeCalls]
  BY <1>1, ChargeEnds
<1>3. CASE UNCHANGED money
  BY <1>1, <1>2, <1>3, ChargeRowsKept DEF ChargingInv
<1>4. CASE ~UNCHANGED money
  <2>1. PICK u \in Sellers, amount \in {Gift, -Gift}, key \in Keys :
           u = chargeCalls[r].user /\ amount = chargeCalls[r].amount /\ key = chargeCalls[r].key
    BY <1>1, ChargeCallTypes DEF AdjustCalls
  <2>2. Moves(u, amount, "ADMIN_ADJUST", None, key) /\ ~Used(u, key)
    BY <1>4, <2>1 DEF Adjust, Duplicate
  <2>3. amount \in Int /\ None \notin Ads /\ None \notin Keys
    BY ChargingBounds
  <2> DEFINE n == Len(bills)
  <2>4. /\ purse' \in [Sellers -> Nat] /\ bills' \in Seq(BillType)
        /\ n \in Nat /\ Len(bills') = n + 1 /\ Len(bills') <= MaxBills
        /\ DOMAIN bills = 1 .. n /\ DOMAIN bills' = 1 .. (n + 1)
        /\ \A i \in 1 .. n : bills'[i] = bills[i]
        /\ bills'[n + 1] = Bill(u, amount, "ADMIN_ADJUST", None, key)
        /\ Books'
    BY <1>1, <2>2, <2>3, MovesAdds DEF ChargingInv
  <2>5. /\ bills'[n + 1].user = u /\ bills'[n + 1].key = key
        /\ bills'[n + 1].kind = "ADMIN_ADJUST"
    BY <2>4 DEF Bill
  <2>6. ChargeTyped'
    BY <1>1, <1>2, <2>4 DEF ChargeTyped, ChargingTypeOK
  <2>7. \A l : PostBills(l)' = PostBills(l)
    BY <2>4, <2>5 DEF PostBills
  <2>8. PaidOnce'
    BY <1>1, <2>7 DEF ChargingInv, PaidOnce
  <2>9. FreePosts'
    <3>1. \A v : OnTheHouse(v)' = OnTheHouse(v) /\ GrantUsed(v)' = GrantUsed(v)
      BY <1>1, <2>7 DEF OnTheHouse, GrantUsed
    <3> QED
      BY <1>1, <3>1 DEF ChargingInv, FreePosts
  <2>10. KeysOnce'
    <3>1. \A i \in 1 .. n : ~(bills[i].user = u /\ bills[i].key = key)
      BY <2>2, <2>4 DEF Used
    <3>2. \A i \in 1 .. (n + 1) : i \in 1 .. n \/ i = n + 1
      BY <2>4
    <3> QED
      BY <2>4, <2>5, <3>1, <3>2 DEF ChargingInv, KeysOnce
  <2> QED
    BY <1>2, <2>4, <2>6, <2>8, <2>9, <2>10 DEF ChargingInv
<1> QED
  BY <1>3, <1>4

(* A post commits with what it was charged: a row of its own, or the one   *)
(* grant of the account.                                                   *)
LEMMA SavePostInv ==
    ASSUME ChargingInv, NEW r \in Requests, SavePost(r)
    PROVE  ChargingInv'
<1>1. /\ ChargeTyped /\ chargeCalls[r].at = "save" /\ ChargeGoes(r, Idle)
      /\ UNCHANGED <<postTariff, resets>>
      /\ posted \subseteq Ads /\ due \subseteq posted /\ IsFiniteSet(due)
      /\ grant \in [Sellers -> Ads \cup {None}] /\ resets \in [Sellers -> Nat]
      /\ Posting(r)
  BY DEF ChargingInv, SavePost, ChargeTyped, ChargingTypeOK, Posting
<1>2. PICK l \in Ads, t \in {"free", "grant", "money"}, p \in BOOLEAN :
         l = chargeCalls[r].ad /\ t = chargeCalls[r].terms /\ p = chargeCalls[r].priced
  BY <1>1, ChargeCallTypes DEF SaveCalls
<1>3. PICK u \in Sellers : u = SellerOf[l]
  BY SellersSell
<1>4. /\ posted' = posted \cup {l}
      /\ grant' = IF t = "grant" THEN [grant EXCEPT ![u] = l] ELSE grant
      /\ IF t = "money" THEN Moves(u, -PostPrice, "LISTING_POST", l, None)
         ELSE UNCHANGED money
      /\ due' = IF p THEN due \cup {l} ELSE due
  BY <1>2, <1>3 DEF SavePost
<1>5. /\ p <=> t # "free"
      /\ t = "grant" => grant[u] = None
      /\ l \notin posted /\ l \notin due /\ PostBills(l) = {}
  BY <1>1, <1>2, <1>3 DEF ChargingInv, TermsStand, PostsApart, PaidOnce
<1>6. /\ chargeCalls' \in [Requests -> ChargeCalls] /\ chargeCalls'[r] = Idle
      /\ \A q \in Requests : q # r => chargeCalls'[q] = chargeCalls[q]
  BY <1>1, ChargeGoesTo DEF ChargeCalls
<1>7. ~Posting(r)' /\ ~Charged(r)' /\ chargeCalls'[r].at # "save"
  BY <1>6 DEF Posting, Charged, Idle
<1>8. \A q \in Requests : q # r => (Posting(q)' <=> Posting(q)) /\ (Charged(q)' <=> Charged(q))
  BY <1>6 DEF Posting, Charged
<1>9. PostsApart'
  <2>1. \A q \in Requests : q # r /\ Posting(q) => chargeCalls[q].ad # l
    BY <1>1, <1>2 DEF ChargingInv, PostsApart
  <2> QED
    BY <1>4, <1>6, <1>7, <1>8, <2>1 DEF ChargingInv, PostsApart
<1>10. TermsStand'
  <2>1. ASSUME NEW q \in Requests, q # r, chargeCalls[q].at = "save",
               chargeCalls[q].terms = "grant"
        PROVE  grant'[SellerOf[chargeCalls[q].ad]] = None
    <3>1. grant[SellerOf[chargeCalls[q].ad]] = None /\ Charged(q)
      BY <2>1 DEF ChargingInv, TermsStand, Charged
    <3>2. t = "grant" => SellerOf[chargeCalls[q].ad] # u
      BY <1>1, <1>2, <1>3, <2>1, <3>1 DEF ChargingInv, TermsStand, Charged
    <3> QED
      BY <1>1, <1>4, <3>1, <3>2
  <2> QED
    BY <1>6, <1>7, <1>8, <2>1 DEF ChargingInv, TermsStand
<1>11. /\ posted' \subseteq Ads /\ due' \subseteq posted' /\ IsFiniteSet(due')
       /\ grant' \in [Sellers -> Ads \cup {None}]
       /\ due \subseteq due' /\ due' \subseteq due \cup {l} /\ (t # "free" => l \in due')
       /\ (t = "free" => due' = due)
  BY <1>1, <1>4, <1>5, FS_AddElement
<1>12. /\ PaidOnce' /\ KeysOnce' /\ Books' /\ ChargeTyped'
       /\ \A k \in Ads : k # l => PostBills(k)' = PostBills(k)
       /\ t = "money" => PostBills(l)' # {}
  <2>1. CASE t # "money"
    <3>1. UNCHANGED <<purse, bills>>
      BY <1>4, <2>1 DEF money
    <3>2. \A k : PostBills(k)' = PostBills(k)
      BY <3>1 DEF PostBills
    <3>3. PaidOnce' /\ KeysOnce' /\ Books'
      BY <1>11, <3>1, <3>2 DEF ChargingInv, PaidOnce, KeysOnce, Books, Leaves
    <3>4. ChargeTyped'
      BY <1>1, <1>6, <1>11, <3>1 DEF ChargeTyped, ChargingTypeOK
    <3> QED
      BY <2>1, <3>2, <3>3, <3>4
  <2>2. CASE t = "money"
    <3>1. /\ -PostPrice \in Int /\ None \notin Keys
          /\ Moves(u, -PostPrice, "LISTING_POST", l, None)
      BY <1>4, <2>2, ChargingBounds
    <3> DEFINE n == Len(bills)
    <3>2. /\ purse' \in [Sellers -> Nat] /\ bills' \in Seq(BillType)
          /\ n \in Nat /\ Len(bills') = n + 1 /\ Len(bills') <= MaxBills
          /\ DOMAIN bills = 1 .. n /\ DOMAIN bills' = 1 .. (n + 1)
          /\ \A i \in 1 .. n : bills'[i] = bills[i]
          /\ bills'[n + 1] = Bill(u, -PostPrice, "LISTING_POST", l, None)
          /\ Books'
      BY <1>1, <3>1, MovesAdds DEF ChargingInv
    <3>3. /\ bills'[n + 1].user = u /\ bills'[n + 1].key = None
          /\ bills'[n + 1].kind = "LISTING_POST" /\ bills'[n + 1].ref = l
      BY <3>2 DEF Bill
    <3>4. \A i \in 1 .. (n + 1) : i \in 1 .. n \/ i = n + 1
      BY <3>2
    <3>5. \A k : k # l => PostBills(k)' = PostBills(k)
      BY <3>2, <3>3, <3>4 DEF PostBills
    <3>6. PostBills(l)' = {n + 1}
      BY <1>5, <3>2, <3>3, <3>4 DEF PostBills
    <3>7. PaidOnce'
      BY <1>11, <2>2, <3>5, <3>6 DEF ChargingInv, PaidOnce
    <3>8. KeysOnce'
      BY <3>1, <3>2, <3>3, <3>4 DEF ChargingInv, KeysOnce
    <3>9. ChargeTyped'
      BY <1>1, <1>6, <1>11, <3>2 DEF ChargeTyped, ChargingTypeOK
    <3> QED
      BY <3>2, <3>5, <3>6, <3>7, <3>8, <3>9
  <2> QED
    BY <2>1, <2>2
<1>13. FreePosts'
  <2> SUFFICES ASSUME NEW v \in Sellers
               PROVE  /\ grant'[v] \in posted' \cup {None}
                      /\ Cardinality(OnTheHouse(v)') <= resets'[v] + GrantUsed(v)'
    BY DEF FreePosts
  <2>1. /\ grant[v] \in posted \cup {None}
        /\ Cardinality(OnTheHouse(v)) <= resets[v] + GrantUsed(v)
    BY DEF ChargingInv, FreePosts
  <2>2. grant'[v] \in posted' \cup {None}
    BY <1>1, <1>4, <2>1
  <2>3. IsFiniteSet(OnTheHouse(v)) /\ Cardinality(OnTheHouse(v)) \in Nat
    <3>1. OnTheHouse(v) \subseteq due
      BY DEF OnTheHouse
    <3> QED
      BY <1>1, <3>1, FS_Subset, FS_CardinalityType
  <2>4. l \notin OnTheHouse(v)
    BY <1>5 DEF OnTheHouse
  <2>5. \A k \in due : k \in Ads /\ k # l
    BY <1>1, <1>5
  <2>6. CASE v = u /\ t = "grant"
    <3>1. OnTheHouse(v)' \subseteq OnTheHouse(v) \cup {l}
      BY <1>11, <1>12, <2>5 DEF OnTheHouse
    <3>2. /\ IsFiniteSet(OnTheHouse(v) \cup {l})
          /\ Cardinality(OnTheHouse(v) \cup {l}) = Cardinality(OnTheHouse(v)) + 1
      BY <2>3, <2>4, FS_AddElement
    <3>3. /\ Cardinality(OnTheHouse(v)') <= Cardinality(OnTheHouse(v)) + 1
          /\ IsFiniteSet(OnTheHouse(v)')
      BY <3>1, <3>2, FS_Subset
    <3>4. Cardinality(OnTheHouse(v)') \in Nat
      BY <3>3, FS_CardinalityType
    <3>5. grant'[v] # None /\ GrantUsed(v) = 0 /\ GrantUsed(v)' = 1
      <4>1. l # None
        BY ChargingBounds
      <4> QED
        BY <1>1, <1>4, <1>5, <2>6, <4>1 DEF GrantUsed
    <3>6. resets'[v] = resets[v] /\ resets[v] \in Nat
      BY <1>1
    <3> QED
      BY <2>1, <2>2, <2>3, <3>3, <3>4, <3>5, <3>6
  <2>7. CASE v # u \/ t # "grant"
    <3>1. OnTheHouse(v)' = OnTheHouse(v)
      BY <1>3, <1>11, <1>12, <2>5, <2>7 DEF OnTheHouse
    <3>2. GrantUsed(v)' = GrantUsed(v)
      BY <1>1, <1>4, <2>7 DEF GrantUsed
    <3> QED
      BY <1>1, <2>1, <2>2, <3>1, <3>2
  <2> QED
    BY <2>6, <2>7
<1> QED
  BY <1>9, <1>10, <1>12, <1>13 DEF ChargingInv

(* Nothing is posted and nobody has money.                                 *)
LEMMA ChargingInitInv == ChargingInit => ChargingInv
<1> SUFFICES ASSUME ChargingInit PROVE ChargingInv
  OBVIOUS
<1>1. /\ posted = {} /\ due = {} /\ bills = <<>> /\ postTariff = TRUE
      /\ purse = [u \in Sellers |-> 0] /\ grant = [u \in Sellers |-> None]
      /\ chargeCalls = [r \in Requests |-> Idle] /\ resets = [u \in Sellers |-> 0]
  BY DEF ChargingInit
<1>2. Len(bills) = 0 /\ bills \in Seq(BillType) /\ DOMAIN bills = {}
  BY <1>1
<1>3. ChargeTyped
  BY <1>1, <1>2, ChargingBounds, FS_EmptySet DEF ChargeTyped, ChargingTypeOK, ChargeCalls
<1>4. \A r \in Requests : ~Posting(r) /\ ~Charged(r) /\ chargeCalls[r].at # "save"
  BY <1>1 DEF Posting, Charged, Idle
<1>5. PostsApart /\ TermsStand
  BY <1>4 DEF PostsApart, TermsStand
<1>6. \A l : PostBills(l) = {}
  BY <1>2 DEF PostBills
<1>7. PaidOnce /\ KeysOnce
  BY <1>2, <1>6 DEF PaidOnce, KeysOnce
<1>8. FreePosts
  <2>1. \A u : OnTheHouse(u) = {}
    BY <1>1 DEF OnTheHouse
  <2>2. Cardinality({}) = 0
    BY FS_EmptySet
  <2>3. ASSUME NEW u \in Sellers
        PROVE  grant[u] = None /\ Cardinality(OnTheHouse(u)) = 0 /\ resets[u] = 0
    BY <1>1, <2>1, <2>2
  <2> QED
    BY <2>3 DEF FreePosts, GrantUsed
<1>9. Books
  BY <1>1, <1>2 DEF Books, Leaves
<1> QED
  BY <1>3, <1>5, <1>7, <1>8, <1>9 DEF ChargingInv

LEMMA ChargingNextInv == ChargingInv /\ [ChargingNext]_chargeVars => ChargingInv'
BY AskPostInv, ChargePostInv, SavePostInv, AdjustInv, GiveBackInv, NoRowInv DEF ChargingNext

(* The invariant says it of rows; the property counts them.                *)
LEMMA ChargingInvTells == ChargingInv => EachPostPaidOnce
<1> SUFFICES ASSUME ChargingInv PROVE EachPostPaidOnce
  OBVIOUS
<1>1. \A l : PostBills(l) = BillsWhere(LAMBDA b : b.kind = "LISTING_POST" /\ b.ref = l)
  BY DEF PostBills, BillsWhere
<1>2. ASSUME NEW S, \A i, j \in S : i = j PROVE Cardinality(S) <= 1
  <2>1. CASE S = {}
    BY <2>1, FS_EmptySet
  <2>2. CASE S # {}
    <3>1. PICK i \in S : S = {i}
      BY <1>2, <2>2
    <3>2. Cardinality({i}) = 1
      BY FS_Singleton
    <3> QED
      BY <3>1, <3>2
  <2> QED
    BY <2>1, <2>2
<1>3. ASSUME NEW l \in Ads
      PROVE  Cardinality(PostBills(l)) <= IF l \in due THEN 1 ELSE 0
  <2>1. CASE l \in due
    BY <1>2, <2>1 DEF ChargingInv, PaidOnce
  <2>2. CASE l \notin due
    <3>1. PostBills(l) = {}
      BY <2>2 DEF ChargingInv, PaidOnce
    <3> QED
      BY <2>2, <3>1, FS_EmptySet
  <2> QED
    BY <2>1, <2>2
<1>4. ASSUME NEW u \in Sellers, NEW key \in Keys
      PROVE  Cardinality(BillsWhere(LAMBDA b : b.user = u /\ b.key = key)) <= 1
  <2>1. PICK S : S = BillsWhere(LAMBDA b : b.user = u /\ b.key = key)
    OBVIOUS
  <2>2. \A i, j \in S : i = j
    BY <2>1 DEF ChargingInv, KeysOnce, BillsWhere
  <2> QED
    BY <1>2, <2>1, <2>2
<1>5. ASSUME NEW u \in Sellers
      PROVE  /\ grant[u] \in posted \cup {None}
             /\ Cardinality({l \in due : SellerOf[l] = u /\ PostBills(l) = {}})
                  <= resets[u] + IF grant[u] = None THEN 0 ELSE 1
             /\ Leaves(u, Len(bills), purse[u])
             /\ \A i \in DOMAIN bills : bills[i].user = u =>
                  Leaves(u, i - 1, bills[i].after - bills[i].amount)
  BY DEF ChargingInv, FreePosts, Books, OnTheHouse, GrantUsed
<1> QED
  BY <1>1, <1>3, <1>4, <1>5 DEF EachPostPaidOnce

(* For any adverts, sellers, requests and keys, each post that had a price *)
(* is paid for once, with money or with the free post of the account, and  *)
(* the ledger explains the balances (ListingsService.create,               *)
(* WalletService, BillingAdminService).                                    *)
THEOREM PostsArePaidOnce == ChargingSpec => [](EachPostPaidOnce /\ ChargingTypeOK)
<1>1. ChargingInv => ChargingTypeOK
  BY DEF ChargingInv, ChargeTyped
<1> QED
  BY <1>1, ChargingInitInv, ChargingNextInv, ChargingInvTells, PTL DEF ChargingSpec

(***************************************************************************)
(* Days of TOP (Promotion)                                                 *)
(***************************************************************************)
Ops == {"promote", "ARCHIVED", "SOLD", "restore"}

CallsTyped == topCalls \in [Requests -> {Idle} \cup [at : Ops, ad : TopAds]]

GhostsTyped ==
    /\ bought \in [TopAds -> Nat]
    /\ seen \in [TopAds -> Nat]
    /\ rounded \in [TopAds -> Nat]

(* A live advert owes nothing from before, and one that is down shows      *)
(* nothing, unless it was promoted after it came down.                     *)
Apart ==
    \A l \in TopAds \ overtaken :
        IF top[l].status = "ACTIVE" THEN top[l].banked = 0 ELSE Running(l) = 0

PromotionInv ==
    /\ PromotionTypeOK /\ CallsTyped /\ GhostsTyped
    /\ Apart /\ PaidTimeIsKept

-----------------------------------------------------------------------------
(* Rounding up to whole seconds gives the odd half second and no more.     *)
LEMMA BankRounds ==
    ASSUME NEW n \in Nat
    PROVE  /\ Bank(n) \in Nat /\ n % 2 \in Nat
           /\ 2 * Bank(n) = n + (n % 2)
BY DEF Bank

(* What is left of a promotion is a length of time.                        *)
LEMMA RunningType ==
    ASSUME PromotionTypeOK, NEW l \in TopAds
    PROVE  /\ Running(l) \in Nat /\ clock \in Nat
           /\ Running(l) = IF top[l].until > clock THEN top[l].until - clock ELSE 0
<1>1. clock \in Nat /\ top[l].until \in Nat
  BY PromotionBounds DEF PromotionTypeOK
<1> QED
  BY <1>1 DEF Running, Monus

(* A request that is being served has one of the four operations in hand.  *)
LEMMA CallType ==
    ASSUME CallsTyped, NEW r \in Requests, topCalls[r].at \in Ops
    PROVE  topCalls[r].ad \in TopAds
<1>1. topCalls[r] # Idle
  BY DEF Idle, Ops
<1> QED
  BY <1>1 DEF CallsTyped

(* The requests keep their type when one of them goes on.                  *)
LEMMA GoesType ==
    ASSUME CallsTyped, NEW r \in Requests,
           NEW call \in {Idle} \cup [at : Ops, ad : TopAds], TopGoes(r, call)
    PROVE  CallsTyped'
BY DEF CallsTyped, TopGoes

(* What moves neither rows, clock nor ghosts keeps what is said of them.   *)
LEMMA RowsKept ==
    ASSUME PromotionInv, CallsTyped', onSale' \subseteq Durations,
           UNCHANGED <<top, clock, seen, topGhosts>>
    PROVE  PromotionInv'
<1>1. \A l \in TopAds : Running(l)' = Running(l)
  BY DEF Running
<1> QED
  BY <1>1 DEF PromotionInv, PromotionTypeOK, GhostsTyped, Apart, PaidTimeIsKept, topGhosts

-----------------------------------------------------------------------------
(* The steps                                                               *)

(* A request reads the advert it will promote, take down, sell or restore: *)
(* no row changes.                                                         *)
LEMMA AskChangeInv ==
    ASSUME PromotionInv, NEW r \in Requests, NEW l \in TopAds, NEW op \in Ops,
           AskChange(r, l, op)
    PROVE  PromotionInv'
<1>1. CallsTyped'
  BY GoesType DEF PromotionInv, AskChange
<1> QED
  BY <1>1, RowsKept DEF PromotionInv, PromotionTypeOK, AskChange, topGhosts

(* A promotion refused for want of money or tariff changes no row.         *)
LEMMA RefusedInv ==
    ASSUME PromotionInv, NEW r \in Requests, PromoteRefused(r)
    PROVE  PromotionInv'
<1>1. CallsTyped'
  BY GoesType DEF PromotionInv, PromoteRefused
<1> QED
  BY <1>1, RowsKept DEF PromotionInv, PromotionTypeOK, PromoteRefused, topGhosts

(* Offering or withdrawing a length of TOP touches no advert.              *)
LEMMA SetTopTariffInv ==
    ASSUME PromotionInv, NEW d \in Durations, SetTopTariff(d)
    PROVE  PromotionInv'
<1>1. CallsTyped' /\ onSale' \subseteq Durations
  BY DEF PromotionInv, PromotionTypeOK, CallsTyped, SetTopTariff
<1> QED
  BY <1>1, RowsKept DEF SetTopTariff, topGhosts

(* The days bought are added to what runs, so both sides grow by them.     *)
LEMMA PromoteInv ==
    ASSUME PromotionInv, NEW r \in Requests, NEW named, Promote(r, named)
    PROVE  PromotionInv'
<1>1. /\ topCalls[r].ad \in TopAds
      /\ PromotionTypeOK /\ CallsTyped /\ GhostsTyped /\ Apart /\ PaidTimeIsKept
  BY CallType DEF Promote, PromotionInv, Ops
<1>2. PICK a \in TopAds : a = topCalls[r].ad
  BY <1>1
<1>3. PICK d \in Nat :
        /\ top' = [top EXCEPT ![a].until = clock + Running(a) + d]
        /\ bought' = [bought EXCEPT ![a] = @ + d]
  BY <1>1, <1>2, PromotionBounds DEF Promote, Resolved, PromotionTypeOK
<1>4. /\ Running(a) \in Nat /\ clock \in Nat
      /\ \A l \in TopAds : Running(l) \in Nat
  BY <1>1, RunningType
<1>5. /\ top[a] \in [status : ListingStatuses, until : Nat, banked : Nat]
      /\ top'[a] = [top[a] EXCEPT !.until = clock + Running(a) + d]
      /\ \A l \in TopAds \ {a} : top'[l] = top[l]
  BY <1>1, <1>3 DEF PromotionTypeOK
<1>6. clock' = clock /\ seen' = seen /\ rounded' = rounded /\ onSale' = onSale
  BY DEF Promote
<1>7. /\ top'[a].status = top[a].status /\ top'[a].banked = top[a].banked
      /\ top'[a].until = clock + Running(a) + d
  BY <1>5
<1>8. /\ Running(a)' = Running(a) + d
      /\ \A l \in TopAds \ {a} : Running(l)' = Running(l)
  <2>1. Running(a)' = Monus(clock + Running(a) + d, clock)
    BY <1>6, <1>7 DEF Running
  <2>2. Running(a)' = Running(a) + d
    BY <1>3, <1>4, <2>1 DEF Monus
  <2>3. \A l \in TopAds \ {a} : Running(l)' = Running(l)
    BY <1>5, <1>6 DEF Running
  <2> QED
    BY <2>2, <2>3
<1>9. PromotionTypeOK'
  BY <1>1, <1>3, <1>4, <1>5, <1>6 DEF PromotionTypeOK
<1>10. CallsTyped' /\ GhostsTyped'
  BY <1>1, <1>3, <1>6, GoesType DEF GhostsTyped, Promote
<1>11. overtaken' = IF top[a].status = "ACTIVE" THEN overtaken ELSE overtaken \cup {a}
  BY <1>2 DEF Promote
<1>12. Apart'
  BY <1>1, <1>5, <1>6, <1>8, <1>7, <1>11 DEF Apart
<1>13. PaidTimeIsKept'
  <2> SUFFICES ASSUME NEW l \in TopAds \ overtaken'
               PROVE  seen[l] + Running(l)' + 2 * top'[l].banked = bought'[l] + rounded[l]
    BY <1>6 DEF PaidTimeIsKept
  <2>1. seen[l] + Running(l) + 2 * top[l].banked = bought[l] + rounded[l]
    BY <1>1, <1>11 DEF PaidTimeIsKept
  <2>2. /\ seen[l] \in Nat /\ bought[l] \in Nat /\ rounded[l] \in Nat
        /\ Running(l) \in Nat /\ top[l].banked \in Nat
    BY <1>1, <1>4 DEF GhostsTyped, PromotionTypeOK
  <2>3. CASE l = a
    BY <1>1, <1>3, <1>8, <1>7, <2>1, <2>2, <2>3 DEF GhostsTyped
  <2>4. CASE l # a
    BY <1>1, <1>3, <1>5, <1>8, <2>1, <2>4 DEF GhostsTyped
  <2> QED
    BY <2>3, <2>4
<1> QED
  BY <1>9, <1>10, <1>12, <1>13 DEF PromotionInv

(* What ran is banked, up to the rounding.                                 *)
LEMMA TakeDownInv ==
    ASSUME PromotionInv, NEW r \in Requests, TakeDown(r)
    PROVE  PromotionInv'
<1>1. /\ topCalls[r].ad \in TopAds /\ topCalls[r].at \in {"ARCHIVED", "SOLD"}
      /\ PromotionTypeOK /\ CallsTyped /\ GhostsTyped /\ Apart /\ PaidTimeIsKept
  BY CallType DEF TakeDown, PromotionInv, Ops
<1>2. PICK a \in TopAds, rest \in Nat, op \in {"ARCHIVED", "SOLD"} :
        a = topCalls[r].ad /\ rest = Running(a) /\ op = topCalls[r].at
  BY <1>1, RunningType
<1>3. clock \in Nat /\ \A l \in TopAds : Running(l) \in Nat
  BY <1>1, RunningType
<1>4. /\ Bank(rest) \in Nat /\ rest % 2 \in Nat
      /\ 2 * Bank(rest) = rest + (rest % 2)
  BY BankRounds
<1>5. top[a] \in [status : ListingStatuses, until : Nat, banked : Nat]
  BY <1>1 DEF PromotionTypeOK
<1>6. PICK row \in [status : ListingStatuses, until : Nat, banked : Nat] :
        /\ top' = [top EXCEPT ![a] = row]
        /\ row.status # "ACTIVE"
        /\ rest > 0 => row.until = 0 /\ row.banked = Bank(rest)
        /\ ~(rest > 0) => row.until = top[a].until /\ row.banked = top[a].banked
  <2> DEFINE new == IF rest > 0 THEN TopRow(op, 0, Bank(rest))
                    ELSE TopRow(op, top[a].until, top[a].banked)
  <2>1. top' = [top EXCEPT ![a] = new]
    BY <1>2 DEF TakeDown
  <2>2. /\ new \in [status : ListingStatuses, until : Nat, banked : Nat]
        /\ new.status # "ACTIVE"
        /\ rest > 0 => new.until = 0 /\ new.banked = Bank(rest)
        /\ ~(rest > 0) => new.until = top[a].until /\ new.banked = top[a].banked
    BY <1>4, <1>5 DEF TopRow, ListingStatuses
  <2> QED
    BY <2>1, <2>2
<1>7. /\ top'[a] = row
      /\ \A l \in TopAds \ {a} : top'[l] = top[l]
  BY <1>1, <1>6 DEF PromotionTypeOK
<1>8. /\ rounded' = [rounded EXCEPT ![a] = @ + (rest % 2)]
       /\ UNCHANGED <<onSale, clock, bought, seen, overtaken>>
  BY <1>2 DEF TakeDown
<1>9. /\ Running(a)' = 0
      /\ \A l \in TopAds \ {a} : Running(l)' = Running(l)
  <2>1. ASSUME rest > 0 PROVE Running(a)' = 0
    <3>1. Running(a)' = Monus(0, clock)
      BY <1>6, <1>7, <1>8, <2>1 DEF Running
    <3> QED
      BY <1>3, <3>1 DEF Monus
  <2>2. ASSUME ~(rest > 0) PROVE Running(a)' = 0
    <3>1. top'[a].until = top[a].until /\ clock' = clock /\ rest = 0
      BY <1>6, <1>7, <1>8, <2>2
    <3> QED
      BY <1>2, <3>1 DEF Running
  <2>3. \A l \in TopAds \ {a} : Running(l)' = Running(l)
    BY <1>7, <1>8 DEF Running
  <2> QED
    BY <2>1, <2>2, <2>3
<1>10. PromotionTypeOK'
  BY <1>1, <1>6, <1>8 DEF PromotionTypeOK
<1>11. CallsTyped' /\ GhostsTyped'
  BY <1>1, <1>4, <1>8, GoesType DEF GhostsTyped, TakeDown
<1>12. Apart'
  BY <1>1, <1>6, <1>7, <1>9, <1>8 DEF Apart
<1>13. PaidTimeIsKept'
  <2> SUFFICES ASSUME NEW l \in TopAds \ overtaken
               PROVE  seen[l] + Running(l)' + 2 * top'[l].banked = bought[l] + rounded'[l]
    BY <1>8 DEF PaidTimeIsKept
  <2>1. seen[l] + Running(l) + 2 * top[l].banked = bought[l] + rounded[l]
    BY <1>1 DEF PaidTimeIsKept
  <2>2. /\ seen[l] \in Nat /\ bought[l] \in Nat /\ rounded[l] \in Nat
        /\ Running(l) \in Nat /\ top[l].banked \in Nat
    BY <1>1, <1>3 DEF GhostsTyped, PromotionTypeOK
  <2>3. CASE l = a /\ rest > 0
    <3>1. top[a].banked = 0
      BY <1>1, <1>2, <2>3 DEF Apart
    <3>2. rounded'[l] = rounded[l] + (rest % 2)
      BY <1>1, <1>8, <2>3 DEF GhostsTyped
    <3> QED
      BY <1>2, <1>4, <1>6, <1>7, <1>9, <2>1, <2>2, <2>3, <3>1, <3>2
  <2>4. CASE l = a /\ ~(rest > 0)
    <3>1. rest = 0
      BY <2>4
    <3>2. rounded'[l] = rounded[l] + (rest % 2)
      BY <1>1, <1>8, <2>4 DEF GhostsTyped
    <3>3. rest % 2 = 0
      <4>1. 0 % 2 = 0
        OBVIOUS
      <4> QED
        BY <3>1, <4>1
    <3> QED
      BY <1>2, <1>6, <1>7, <1>9, <2>1, <2>2, <2>4, <3>1, <3>2, <3>3
  <2>5. CASE l # a
    BY <1>1, <1>7, <1>9, <1>8, <2>1, <2>5 DEF GhostsTyped
  <2> QED
    BY <2>3, <2>4, <2>5
<1> QED
  BY <1>10, <1>11, <1>12, <1>13 DEF PromotionInv

(* What is owed runs again.                                                *)
LEMMA RestoreInv ==
    ASSUME PromotionInv, NEW r \in Requests, Restore(r)
    PROVE  PromotionInv'
<1>1. /\ topCalls[r].ad \in TopAds
      /\ PromotionTypeOK /\ CallsTyped /\ GhostsTyped /\ Apart /\ PaidTimeIsKept
  BY CallType DEF Restore, PromotionInv, Ops
<1>2. PICK a \in TopAds : a = topCalls[r].ad
  BY <1>1
<1>3. clock \in Nat /\ \A l \in TopAds : Running(l) \in Nat
  BY <1>1, RunningType
<1>4. top[a] \in [status : ListingStatuses, until : Nat, banked : Nat]
  BY <1>1 DEF PromotionTypeOK
<1>5. PICK row \in [status : ListingStatuses, until : Nat, banked : Nat] :
        /\ top' = [top EXCEPT ![a] = row]
        /\ row.status = "ACTIVE" /\ row.banked = 0
        /\ row.until = IF top[a].banked > 0 THEN clock + 2 * top[a].banked
                       ELSE top[a].until
  <2> DEFINE until == IF top[a].banked > 0 THEN clock + 2 * top[a].banked
                      ELSE top[a].until
             new == TopRow("ACTIVE", until, 0)
  <2>1. top' = [top EXCEPT ![a] = new]
    BY <1>2 DEF Restore
  <2>2. until \in Nat
    BY <1>3, <1>4
  <2> HIDE DEF until
  <2>3. /\ new \in [status : ListingStatuses, until : Nat, banked : Nat]
        /\ new.status = "ACTIVE" /\ new.banked = 0 /\ new.until = until
    BY <2>2 DEF TopRow, ListingStatuses
  <2> QED
    BY <2>1, <2>3 DEF until
<1>6. /\ top'[a] = row
      /\ \A l \in TopAds \ {a} : top'[l] = top[l]
  BY <1>1, <1>5 DEF PromotionTypeOK
<1>7. UNCHANGED <<onSale, clock, bought, seen, rounded, overtaken>>
  BY DEF Restore, topGhosts
<1>8. /\ Running(a)' = IF top[a].banked > 0 THEN 2 * top[a].banked ELSE Running(a)
      /\ \A l \in TopAds \ {a} : Running(l)' = Running(l)
  <2>1. Running(a)' = Monus(row.until, clock)
    BY <1>6, <1>7 DEF Running
  <2>2. Running(a)' = IF top[a].banked > 0 THEN 2 * top[a].banked ELSE Running(a)
    BY <1>3, <1>4, <1>5, <2>1 DEF Running, Monus
  <2>3. \A l \in TopAds \ {a} : Running(l)' = Running(l)
    BY <1>6, <1>7 DEF Running
  <2> QED
    BY <2>2, <2>3
<1>9. PromotionTypeOK'
  BY <1>1, <1>5, <1>7 DEF PromotionTypeOK
<1>10. CallsTyped' /\ GhostsTyped'
  BY <1>1, <1>7, GoesType DEF GhostsTyped, Restore
<1>11. Apart'
  BY <1>1, <1>5, <1>6, <1>7, <1>8 DEF Apart
<1>12. PaidTimeIsKept'
  <2> SUFFICES ASSUME NEW l \in TopAds \ overtaken
               PROVE  seen[l] + Running(l)' + 2 * top'[l].banked = bought[l] + rounded[l]
    BY <1>7 DEF PaidTimeIsKept
  <2>1. seen[l] + Running(l) + 2 * top[l].banked = bought[l] + rounded[l]
    BY <1>1 DEF PaidTimeIsKept
  <2>2. /\ seen[l] \in Nat /\ Running(l) \in Nat /\ top[l].banked \in Nat
    BY <1>1, <1>3 DEF GhostsTyped, PromotionTypeOK
  <2>3. CASE l = a
    <3>1. top[a].banked > 0 => Running(a) = 0
      BY <1>1, <2>3 DEF Apart
    <3>2. top'[l].banked = 0
      BY <1>5, <1>6, <2>3
    <3>3. Running(l)' = IF top[l].banked > 0 THEN 2 * top[l].banked ELSE Running(l)
      BY <1>8, <2>3
    <3> QED
      BY <2>1, <2>2, <2>3, <3>1, <3>2, <3>3
  <2>4. CASE l # a
    BY <1>6, <1>8, <2>1, <2>4
  <2> QED
    BY <2>3, <2>4
<1> QED
  BY <1>9, <1>10, <1>11, <1>12 DEF PromotionInv

(* What ran for half a second was seen for it.                             *)
LEMMA TickInv ==
    ASSUME PromotionInv, Tick
    PROVE  PromotionInv'
<1>1. PromotionTypeOK /\ CallsTyped /\ GhostsTyped /\ Apart /\ PaidTimeIsKept
  BY DEF PromotionInv
<1>2. clock \in Nat /\ \A l \in TopAds : Running(l) \in Nat /\ top[l].until \in Nat
  BY <1>1, RunningType DEF PromotionTypeOK
<1>3. /\ clock' = clock + 1 /\ clock < EndOfTime
      /\ UNCHANGED <<top, onSale, topCalls, bought, rounded, overtaken>>
  BY DEF Tick, topGhosts
<1>4. \A l \in TopAds : Running(l)' = IF Running(l) > 0 THEN Running(l) - 1 ELSE 0
  BY <1>2, <1>3 DEF Running, Monus
<1>5. \A l \in TopAds : /\ seen[l] \in Nat
                        /\ seen'[l] = seen[l] +
                             IF top[l].status = "ACTIVE" /\ Running(l) > 0 THEN 1 ELSE 0
  BY <1>1 DEF Tick, GhostsTyped
<1>6. seen' \in [TopAds -> Nat]
  BY <1>5 DEF Tick
<1>7. PromotionTypeOK'
  BY <1>1, <1>2, <1>3, PromotionBounds DEF PromotionTypeOK
<1>8. CallsTyped' /\ GhostsTyped'
  BY <1>1, <1>3, <1>6 DEF CallsTyped, GhostsTyped
<1>9. Apart'
  BY <1>1, <1>3, <1>4 DEF Apart
<1>10. PaidTimeIsKept'
  <2> SUFFICES ASSUME NEW l \in TopAds \ overtaken
               PROVE  seen'[l] + Running(l)' + 2 * top[l].banked = bought[l] + rounded[l]
    BY <1>3 DEF PaidTimeIsKept
  <2>1. seen[l] + Running(l) + 2 * top[l].banked = bought[l] + rounded[l]
    BY <1>1 DEF PaidTimeIsKept
  <2>2. /\ seen[l] \in Nat /\ Running(l) \in Nat /\ top[l].banked \in Nat
    BY <1>1, <1>2, <1>5 DEF PromotionTypeOK
  <2>3. Running(l) > 0 => top[l].status = "ACTIVE"
    BY <1>1 DEF Apart
  <2> QED
    BY <1>4, <1>5, <2>1, <2>2, <2>3
<1> QED
  BY <1>7, <1>8, <1>9, <1>10 DEF PromotionInv

(* In the beginning nothing was bought, shown or owed.                     *)
LEMMA PromotionInitInv == PromotionInit => PromotionInv
<1> SUFFICES ASSUME PromotionInit PROVE PromotionInv
  OBVIOUS
<1>1. PromotionTypeOK /\ CallsTyped /\ GhostsTyped
  BY PromotionBounds DEF PromotionInit, PromotionTypeOK, CallsTyped, GhostsTyped,
                         TopRow, ListingStatuses
<1>2. \A l \in TopAds : /\ top[l] = TopRow("ACTIVE", 0, 0) /\ Running(l) = 0
                        /\ seen[l] = 0 /\ bought[l] = 0 /\ rounded[l] = 0
  BY DEF PromotionInit, Running, Monus, TopRow
<1>3. Apart /\ PaidTimeIsKept
  BY <1>2 DEF Apart, PaidTimeIsKept, TopRow
<1> QED
  BY <1>1, <1>3 DEF PromotionInv

(* Every step of the days of TOP keeps the invariant.                      *)
LEMMA PromotionNextInv ==
    ASSUME PromotionInv, [PromotionNext]_topVars
    PROVE  PromotionInv'
<1>1. ASSUME NEW r \in Requests, NEW l \in TopAds, NEW op \in Ops, AskChange(r, l, op)
      PROVE  PromotionInv'
  BY <1>1, AskChangeInv
<1>2. ASSUME NEW r \in Requests, NEW named \in Durations \cup {None}, Promote(r, named)
      PROVE  PromotionInv'
  BY <1>2, PromoteInv
<1>3. ASSUME NEW r \in Requests, PromoteRefused(r) PROVE PromotionInv'
  BY <1>3, RefusedInv
<1>4. ASSUME NEW r \in Requests, TakeDown(r) PROVE PromotionInv'
  BY <1>4, TakeDownInv
<1>5. ASSUME NEW r \in Requests, Restore(r) PROVE PromotionInv'
  BY <1>5, RestoreInv
<1>6. ASSUME NEW d \in Durations, SetTopTariff(d) PROVE PromotionInv'
  BY <1>6, SetTopTariffInv
<1>7. CASE Tick
  BY <1>7, TickInv
<1>8. CASE UNCHANGED topVars
  <2>1. CallsTyped' /\ onSale' \subseteq Durations
    BY <1>8 DEF topVars, CallsTyped, PromotionInv, PromotionTypeOK
  <2> QED
    BY <1>8, <2>1, RowsKept DEF topVars, topGhosts
<1> QED
  BY <1>1, <1>2, <1>3, <1>4, <1>5, <1>6, <1>7, <1>8 DEF PromotionNext, Ops

-----------------------------------------------------------------------------
(* The rows, the tariffs and the clock keep their types                    *)
(* (listing.entity.ts: promoted_until, promotion_remaining_seconds).       *)
THEOREM PromotionTypeCorrect == PromotionSpec => []PromotionTypeOK
<1>1. PromotionInv => PromotionTypeOK
  BY DEF PromotionInv
<1> QED
  BY <1>1, PromotionInitInv, PromotionNextInv, PTL DEF PromotionSpec

(* Time at the top that was paid for is never lost, and none is given but  *)
(* the half second of rounding, through any number of promotions,          *)
(* take-downs, sales and restores that overlap, on any number of adverts   *)
(* (listings.service.ts:786-824, :886-942).                                *)
THEOREM PaidTimeSurvives == PromotionSpec => []PaidTimeIsKept
<1>1. PromotionInv => PaidTimeIsKept
  BY DEF PromotionInv
<1> QED
  BY <1>1, PromotionInitInv, PromotionNextInv, PTL DEF PromotionSpec

(***************************************************************************)
(* The rate and the prices (Prices)                                        *)
(***************************************************************************)
Rates == Quotes \cup {Fallback}
Passes == [at : {"offers", "points"}, uzs : Rates, awaits : SUBSET Flats,
           offers : SUBSET Flats, points : SUBSET Flats]

PricesTyped ==
    /\ PricesTypeOK
    /\ repricing \in Passes \cup {Idle}
    /\ changed \subseteq Flats /\ projecting \subseteq Flats
    /\ offerCalls \in [Requests -> [flat : Flats, uzs : Rates] \cup {Idle}]

(* An offer the open pass has not taken was saved since the last one, or   *)
(* the pass waits for it.                                                  *)
PassTakes == repricing # Idle => \A l \in Flats :
    \/ l \in own \cup repricing.offers
    \/ repricing.at = "offers" /\ l \in repricing.awaits

(* Where the pass will write one of the two copies and not the other, the  *)
(* map is still to be told, or was told across it.                         *)
Untold == changed \cup projecting \cup torn
PassTears == repricing # Idle => \A l \in Flats :
    IF repricing.at = "offers"
    THEN l \in repricing.offers \cup repricing.awaits \cup Untold
    ELSE /\ (l \in repricing.offers <=> l \in repricing.points) \/ l \in Untold
         /\ l \in repricing.points => l \notin projecting

PricesInv == PricesTyped /\ PassTakes /\ PassTears /\ StoredPricesFollowTheRate

-----------------------------------------------------------------------------
(* In the beginning no pass runs and every price is at the rate it was     *)
(* saved with.                                                             *)
LEMMA PricesInitInv == PricesInit => PricesInv
<1> SUFFICES ASSUME PricesInit PROVE PricesInv
  OBVIOUS
<1>1. PricesTypeOK
  <2>1. rate \in [uzs : Quotes \cup {Fallback}, source : Sources \cup {"CONSTANT"},
                  fresh : BOOLEAN]
    BY DEF PricesInit, Cold
  <2>2. refreshing \in [{"daily", "retry"} -> {"idle", "cbu", "market"}]
    BY DEF PricesInit
  <2> QED
    BY <2>1, <2>2 DEF PricesInit, PricesTypeOK
<1> QED
  BY <1>1 DEF PricesInit, PricesInv, PricesTyped, PassTakes, PassTears,
     StoredPricesFollowTheRate

RateTyped ==
    /\ rate \in [uzs : Rates, source : Sources \cup {"CONSTANT"}, fresh : BOOLEAN]
    /\ refreshing \in [{"daily", "retry"} -> {"idle", "cbu", "market"}]
Copies == <<repriced, offers, points, own, torn, changed, projecting, repricing, offerCalls>>

(* The rate moves, and no stored price with it.                            *)
LEMMA RateInv ==
    ASSUME PricesInv,
           \/ \E job \in DOMAIN refreshing :
                 \/ StartRefresh(job) \/ NoQuote(job)
                 \/ \E quote \in Quotes : ApplyQuote(job, quote)
           \/ GrowStale
    PROVE  PricesInv'
<1>0. RateTyped
  BY DEF PricesInv, PricesTyped, PricesTypeOK, Rates, RateTyped
<1>1. ASSUME NEW job \in DOMAIN refreshing, StartRefresh(job) \/ NoQuote(job)
      PROVE  RateTyped' /\ UNCHANGED Copies
  BY <1>0, <1>1 DEF RateTyped, StartRefresh, NoQuote, Copies, stored
<1>2. ASSUME NEW job \in DOMAIN refreshing, NEW quote \in Quotes, ApplyQuote(job, quote)
      PROVE  RateTyped' /\ UNCHANGED Copies
  <2>1. UNCHANGED Copies
    BY <1>2 DEF ApplyQuote, Copies, stored
  <2>2. refreshing' \in [{"daily", "retry"} -> {"idle", "cbu", "market"}]
    BY <1>0, <1>2 DEF ApplyQuote, RateTyped
  <2>3. PICK source \in Sources : rate' = [uzs |-> quote, fresh |-> TRUE, source |-> source]
    BY <1>2 DEF ApplyQuote, Sources
  <2> QED
    BY <2>1, <2>2, <2>3 DEF RateTyped, Rates
<1>3. ASSUME GrowStale PROVE RateTyped' /\ UNCHANGED Copies
  <2>1. UNCHANGED Copies
    BY <1>3 DEF GrowStale, Copies, stored
  <2> QED
    BY <1>0, <1>3, <2>1 DEF RateTyped, GrowStale
<1>4. RateTyped' /\ UNCHANGED Copies
  BY <1>1, <1>2, <1>3
<1> QED
  BY <1>4 DEF Copies, RateTyped, Rates, PricesInv, PricesTyped, PricesTypeOK, PassTakes,
     PassTears, Untold, StoredPricesFollowTheRate

(* Every other step but the restart leaves the rate alone.                 *)
LEMMA RateStays ==
    ASSUME PricesInv, UNCHANGED ratesState
    PROVE  /\ rate' \in [uzs : Quotes \cup {Fallback}, source : Sources \cup {"CONSTANT"},
                         fresh : BOOLEAN]
           /\ refreshing' \in [{"daily", "retry"} -> {"idle", "cbu", "market"}]
           /\ rate.uzs \in Rates
BY DEF PricesInv, PricesTyped, PricesTypeOK, ratesState, Rates

(* An offer computes its dollar price from the rate in memory, before its  *)
(* transaction commits.                                                    *)
LEMMA StampOfferInv ==
    ASSUME PricesInv, NEW r \in Requests, NEW l \in Flats, StampOffer(r, l)
    PROVE  PricesInv'
<1>1. PICK call : call = [flat |-> l, uzs |-> rate.uzs]
  OBVIOUS
<1>2. /\ offerCalls' = [offerCalls EXCEPT ![r] = call]
      /\ UNCHANGED <<repriced, offers, points, own, torn, changed, projecting, repricing>>
      /\ UNCHANGED ratesState
  BY <1>1 DEF StampOffer, stored
<1>3. call \in [flat : Flats, uzs : Rates]
  BY <1>1, <1>2, RateStays
<1>4. offerCalls' \in [Requests -> [flat : Flats, uzs : Rates] \cup {Idle}]
  BY <1>2, <1>3 DEF PricesInv, PricesTyped
<1>5. PricesTyped'
  BY <1>2, <1>4, RateStays DEF PricesInv, PricesTyped, PricesTypeOK
<1> QED
  BY <1>2, <1>5 DEF PricesInv, PassTakes, PassTears, Untold, StoredPricesFollowTheRate

(* The save ends, and a pass that waited for the row goes on: it has not   *)
(* seen the new one, or takes the old one.                                 *)
LEMMA CommitOfferInv ==
    ASSUME PricesInv, NEW r \in Requests, CommitOffer(r)
    PROVE  PricesInv'
<1>1. PICK l \in Flats, uzs \in Rates : l = offerCalls[r].flat /\ uzs = offerCalls[r].uzs
  BY DEF CommitOffer, PricesInv, PricesTyped
<1>2. /\ offers' = [offers EXCEPT ![l] = uzs]
      /\ own' = own \cup {l} /\ changed' = changed \cup {l}
      /\ offerCalls' = [offerCalls EXCEPT ![r] = Idle]
      /\ repricing' = IF AwaitedBy(l) THEN [repricing EXCEPT !.awaits = @ \ {l}] ELSE repricing
      /\ UNCHANGED <<repriced, points, torn, projecting>>
      /\ UNCHANGED ratesState
  BY <1>1 DEF CommitOffer
<1>3. /\ repricing' \in Passes \cup {Idle}
      /\ repricing' = Idle <=> repricing = Idle
      /\ repricing # Idle => /\ repricing'.at = repricing.at
                             /\ repricing'.uzs = repricing.uzs
                             /\ repricing'.offers = repricing.offers
                             /\ repricing'.points = repricing.points
                             /\ repricing.awaits \ {l} \subseteq repricing'.awaits
  <2>1. CASE ~AwaitedBy(l)
    BY <2>1, <1>2 DEF PricesInv, PricesTyped
  <2>2. CASE AwaitedBy(l)
    <3>1. repricing \in Passes
      BY <2>2 DEF AwaitedBy, PricesInv, PricesTyped
    <3>2. repricing' = [at |-> repricing.at, uzs |-> repricing.uzs,
                        awaits |-> repricing.awaits \ {l},
                        offers |-> repricing.offers, points |-> repricing.points]
      BY <1>2, <2>2, <3>1 DEF Passes
    <3> QED
      BY <2>2, <3>1, <3>2 DEF Passes, Idle, AwaitedBy
  <2> QED
    BY <2>1, <2>2
<1>4. /\ offerCalls' \in [Requests -> [flat : Flats, uzs : Rates] \cup {Idle}]
      /\ offers' \in [Flats -> Rates]
  BY <1>2 DEF PricesInv, PricesTyped, PricesTypeOK, Rates
<1>5. PricesTyped'
  BY <1>2, <1>3, <1>4, RateStays DEF PricesInv, PricesTyped, PricesTypeOK, Rates
<1>6. PassTakes'
  BY <1>2, <1>3 DEF PricesInv, PassTakes
<1>7. PassTears'
  <2>1. Untold' = Untold \cup {l}
    BY <1>2 DEF Untold
  <2> QED
    BY <1>2, <1>3, <2>1 DEF PricesInv, PassTears
<1>8. StoredPricesFollowTheRate'
  BY <1>2 DEF PricesInv, PricesTyped, PricesTypeOK, StoredPricesFollowTheRate
<1> QED
  BY <1>5, <1>6, <1>7, <1>8 DEF PricesInv

(* An offer that fails leaves neither a price nor a debt.                  *)
LEMMA AbortOfferInv ==
    ASSUME PricesInv, NEW r \in Requests, AbortOffer(r)
    PROVE  PricesInv'
<1>1. PICK l \in Flats : l = offerCalls[r].flat
  BY DEF AbortOffer, PricesInv, PricesTyped
<1>2. /\ offerCalls' = [offerCalls EXCEPT ![r] = Idle]
      /\ repricing' = IF AwaitedBy(l)
                      THEN [repricing EXCEPT !.awaits = @ \ {l}, !.offers = @ \cup {l}]
                      ELSE repricing
      /\ UNCHANGED <<repriced, offers, points, own, torn, changed, projecting>>
      /\ UNCHANGED ratesState
  BY <1>1 DEF AbortOffer, stored
<1>3. offerCalls' \in [Requests -> [flat : Flats, uzs : Rates] \cup {Idle}]
  BY <1>2 DEF PricesInv, PricesTyped
<1>4. CASE ~AwaitedBy(l)
  <2>1. repricing' = repricing
    BY <1>2, <1>4
  <2>2. PricesTyped'
    BY <1>2, <1>3, <2>1, RateStays DEF PricesInv, PricesTyped, PricesTypeOK
  <2> QED
    BY <1>2, <2>1, <2>2 DEF PricesInv, PassTakes, PassTears, Untold, StoredPricesFollowTheRate
<1>5. CASE AwaitedBy(l)
  <2>1. repricing \in Passes /\ repricing # Idle /\ repricing.at = "offers"
    BY <1>5 DEF AwaitedBy, PricesInv, PricesTyped
  <2>2. repricing' = [at |-> repricing.at, uzs |-> repricing.uzs,
                      awaits |-> repricing.awaits \ {l},
                      offers |-> repricing.offers \cup {l}, points |-> repricing.points]
    BY <1>2, <1>5, <2>1 DEF Passes
  <2>3. /\ repricing' \in Passes /\ repricing'.at = "offers"
        /\ repricing'.awaits = repricing.awaits \ {l}
        /\ repricing'.offers = repricing.offers \cup {l}
    BY <2>1, <2>2 DEF Passes
  <2>4. PricesTyped'
    BY <1>2, <1>3, <2>3, RateStays DEF PricesInv, PricesTyped, PricesTypeOK
  <2>5. PassTakes'
    BY <1>2, <2>1, <2>3 DEF PricesInv, PassTakes
  <2>6. PassTears'
    BY <1>2, <2>1, <2>3 DEF PricesInv, PassTears, Untold
  <2>7. StoredPricesFollowTheRate'
    BY <1>2 DEF PricesInv, StoredPricesFollowTheRate
  <2> QED
    BY <2>4, <2>5, <2>6, <2>7 DEF PricesInv
<1> QED
  BY <1>4, <1>5

(* The map is told.                                                        *)
LEMMA ProjectionInv ==
    ASSUME PricesInv, NEW l \in Flats, BeginProjection(l) \/ EndProjection(l)
    PROVE  PricesInv'
<1>1. /\ UNCHANGED <<repriced, offers, own, repricing, offerCalls>>
      /\ UNCHANGED ratesState
  BY DEF BeginProjection, EndProjection, stored
<1>2. CASE BeginProjection(l)
  <2>1. /\ projecting' = projecting \cup {l} /\ changed' = changed \ {l}
        /\ repricing # Idle => l \notin repricing.points
        /\ UNCHANGED <<points, torn>>
    BY <1>2 DEF BeginProjection, HeldPoints, stored
  <2>2. PricesTyped'
    BY <1>1, <2>1, RateStays DEF PricesInv, PricesTyped, PricesTypeOK
  <2>3. Untold \subseteq Untold'
    BY <2>1 DEF Untold
  <2>4. PassTakes' /\ PassTears'
    BY <1>1, <2>1, <2>3 DEF PricesInv, PassTakes, PassTears
  <2>5. StoredPricesFollowTheRate'
    BY <1>1, <2>1 DEF PricesInv, StoredPricesFollowTheRate
  <2> QED
    BY <2>2, <2>4, <2>5 DEF PricesInv
<1>3. CASE EndProjection(l)
  <2>1. /\ l \in projecting /\ projecting' = projecting \ {l} /\ changed' = changed
        /\ points' = [points EXCEPT ![l] = offers[l]]
        /\ torn' = IF OneCopyTaken(l) THEN torn \cup {l} ELSE torn \ {l}
    BY <1>3 DEF EndProjection
  <2>2. PricesTyped'
    BY <1>1, <2>1, RateStays DEF PricesInv, PricesTyped, PricesTypeOK
  <2>3. PassTakes'
    BY <1>1 DEF PricesInv, PassTakes
  <2>4. PassTears'
    <3>1. OneCopyTaken(l) => l \in Untold'
      BY <2>1 DEF Untold
    <3>2. \A k \in Flats : k # l => (k \in Untold' <=> k \in Untold)
      BY <2>1 DEF Untold
    <3> SUFFICES ASSUME repricing # Idle, NEW k \in Flats
                 PROVE  IF repricing.at = "offers"
                        THEN k \in repricing.offers \cup repricing.awaits \cup Untold'
                        ELSE /\ (k \in repricing.offers <=> k \in repricing.points) \/ k \in Untold'
                             /\ k \in repricing.points => k \notin projecting'
      BY <1>1 DEF PassTears
    <3>3. CASE k # l
      BY <3>2, <3>3, <2>1 DEF PricesInv, PassTears
    <3>4. CASE k = l
      BY <3>1, <3>4, <2>1, <1>1 DEF PricesInv, PassTears, PricesTyped, Passes, OneCopyTaken
    <3> QED
      BY <3>3, <3>4
  <2>5. StoredPricesFollowTheRate'
    BY <1>1, <2>1 DEF PricesInv, PricesTyped, PricesTypeOK, StoredPricesFollowTheRate
  <2> QED
    BY <2>2, <2>3, <2>4, <2>5 DEF PricesInv
<1> QED
  BY <1>2, <1>3

(* The pass: it takes what it can, waits for the rest, and writes both     *)
(* copies when it ends.                                                    *)
LEMMA PassInv ==
    ASSUME PricesInv, TickReprice \/ RepricePoints \/ CommitReprice \/ AbortReprice
    PROVE  PricesInv'
<1>1. UNCHANGED <<torn, changed, projecting, offerCalls>> /\ UNCHANGED ratesState
  BY DEF TickReprice, RepricePoints, CommitReprice, AbortReprice, stored
<1>2. CASE TickReprice
  <2>0. PICK rewriting \in SUBSET Flats : rewriting = Rewriting
    BY DEF Rewriting, PricesInv, PricesTyped
  <2>1. /\ repricing' = [at |-> "offers", uzs |-> rate.uzs, awaits |-> rewriting,
                         offers |-> Flats \ rewriting, points |-> {}]
        /\ UNCHANGED <<repriced, offers, points, own>>
    BY <1>2, <2>0 DEF TickReprice, stored
  <2>2. /\ repricing' \in Passes /\ repricing'.at = "offers"
        /\ \A l \in Flats : l \in repricing'.offers \cup repricing'.awaits
    BY <1>1, <2>1, RateStays DEF Passes
  <2>3. PricesTyped'
    BY <1>1, <2>1, <2>2, RateStays DEF PricesInv, PricesTyped, PricesTypeOK
  <2> QED
    BY <1>1, <2>1, <2>2, <2>3 DEF PricesInv, PassTakes, PassTears, StoredPricesFollowTheRate
<1>3. CASE RepricePoints
  <2>1. /\ repricing # Idle /\ repricing.at = "offers" /\ repricing.awaits = {}
        /\ repricing' = [repricing EXCEPT !.at = "points", !.points = Flats \ projecting,
                                          !.awaits = projecting]
        /\ UNCHANGED <<repriced, offers, points, own>>
    BY <1>3 DEF RepricePoints, stored
  <2>2. repricing \in Passes
    BY <2>1 DEF PricesInv, PricesTyped
  <2>3. repricing' = [at |-> "points", uzs |-> repricing.uzs, awaits |-> projecting,
                      offers |-> repricing.offers, points |-> Flats \ projecting]
    BY <2>1, <2>2 DEF Passes
  <2>4. projecting \subseteq Flats
    BY DEF PricesInv, PricesTyped
  <2>5. /\ repricing' \in Passes /\ repricing' # Idle /\ repricing'.at = "points"
        /\ repricing'.offers = repricing.offers
        /\ repricing'.points = Flats \ projecting
    BY <2>2, <2>3, <2>4 DEF Passes, Idle
  <2>6. PricesTyped'
    BY <1>1, <2>1, <2>5, RateStays DEF PricesInv, PricesTyped, PricesTypeOK
  <2>7. PassTakes'
    BY <2>1, <2>5 DEF PricesInv, PassTakes
  <2>8. PassTears'
    BY <1>1, <2>1, <2>5 DEF PricesInv, PassTears, Untold
  <2> QED
    BY <1>1, <2>1, <2>6, <2>7, <2>8 DEF PricesInv, StoredPricesFollowTheRate
<1>4. CASE CommitReprice
  <2>1. /\ repricing # Idle /\ repricing.at = "points"
        /\ offers' = [l \in Flats |-> IF l \in repricing.offers THEN repricing.uzs ELSE offers[l]]
        /\ points' = [l \in Flats |-> IF l \in repricing.points THEN repricing.uzs ELSE points[l]]
        /\ own' = own \ repricing.offers
        /\ repriced' = repricing.uzs /\ repricing' = Idle
    BY <1>4 DEF CommitReprice
  <2>2. repricing.uzs \in Rates
    BY <2>1 DEF PricesInv, PricesTyped, Passes
  <2>3. PricesTyped'
    BY <1>1, <2>1, <2>2, RateStays DEF PricesInv, PricesTyped, PricesTypeOK, Rates
  <2>4. PassTakes' /\ PassTears'
    BY <2>1 DEF PassTakes, PassTears
  <2>5. \A l \in Flats \ own' : offers'[l] = repriced'
    BY <2>1 DEF PricesInv, PassTakes
  <2>6. ASSUME NEW l \in Flats \ Untold PROVE points'[l] = offers'[l]
    <3>1. l \in repricing.offers <=> l \in repricing.points
      BY <2>1, <2>6 DEF PricesInv, PassTears
    <3>2. points[l] = offers[l]
      BY <2>6 DEF PricesInv, StoredPricesFollowTheRate, Untold
    <3> QED
      BY <2>1, <3>1, <3>2
  <2> QED
    BY <1>1, <2>3, <2>4, <2>5, <2>6 DEF PricesInv, StoredPricesFollowTheRate, Untold
<1>5. CASE AbortReprice
  <2>1. repricing' = Idle /\ UNCHANGED <<repriced, offers, points, own>>
    BY <1>5 DEF AbortReprice, stored
  <2>2. PricesTyped'
    BY <1>1, <2>1, RateStays DEF PricesInv, PricesTyped, PricesTypeOK
  <2> QED
    BY <1>1, <2>1, <2>2 DEF PricesInv, PassTakes, PassTears, StoredPricesFollowTheRate
<1> QED
  BY <1>2, <1>3, <1>4, <1>5

(* A restart forgets the rate and the pass; what a pass had not finished   *)
(* is torn or untold.                                                      *)
LEMMA PricesRestartInv ==
    ASSUME PricesInv, PricesRestart
    PROVE  PricesInv'
<1>1. /\ rate' = Cold /\ refreshing' = [daily |-> "cbu", retry |-> "idle"]
      /\ repriced' = None /\ repricing' = Idle
      /\ offerCalls' = [r \in Requests |-> Idle]
      /\ changed' = changed \cup projecting /\ projecting' = {}
      /\ UNCHANGED <<offers, points, own, torn>>
  BY DEF PricesRestart, stored
<1>2. rate' \in [uzs : Quotes \cup {Fallback}, source : Sources \cup {"CONSTANT"},
                 fresh : BOOLEAN]
  BY <1>1 DEF Cold
<1>3. refreshing' \in [{"daily", "retry"} -> {"idle", "cbu", "market"}]
  BY <1>1
<1>4. PricesTyped'
  BY <1>1, <1>2, <1>3 DEF PricesInv, PricesTyped, PricesTypeOK
<1> QED
  BY <1>1, <1>4 DEF PricesInv, PassTakes, PassTears, StoredPricesFollowTheRate

(* Every step of the rate and of the prices keeps the invariant.           *)
LEMMA PricesNextInv == PricesInv /\ [PricesNext]_priceVars => PricesInv'
<1> SUFFICES ASSUME PricesInv, [PricesNext]_priceVars PROVE PricesInv'
  OBVIOUS
<1>1. CASE UNCHANGED priceVars
  <2>1. /\ UNCHANGED <<repriced, offers, points, own, torn, changed, projecting, repricing,
                       offerCalls>>
        /\ UNCHANGED ratesState
    BY <1>1 DEF priceVars, stored, ratesState
  <2>2. PricesTyped'
    BY <2>1, RateStays DEF PricesInv, PricesTyped, PricesTypeOK
  <2> QED
    BY <2>1, <2>2 DEF PricesInv, PassTakes, PassTears, Untold, StoredPricesFollowTheRate
<1> QED
  BY <1>1, RateInv, StampOfferInv, CommitOfferInv, AbortOfferInv, ProjectionInv, PassInv,
     PricesRestartInv DEF PricesNext

(* The stored prices follow the rate, whatever overlaps, fails or          *)
(* restarts, for any rates and any number of listings: once a pass has     *)
(* run, an offer carries its rate or was saved since, and the map shows    *)
(* it unless it is on its way or crossed a pass                            *)
(* (price-normalization.service.ts:110-151).                               *)
THEOREM PricesFollow == PricesSpec => [](StoredPricesFollowTheRate /\ PricesTypeOK)
<1>1. PricesInv => StoredPricesFollowTheRate /\ PricesTypeOK
  BY DEF PricesInv, PricesTyped
<1> QED
  BY <1>1, PricesInitInv, PricesNextInv, PTL DEF PricesSpec

(***************************************************************************)
(* Categories and amenities (Catalogue)                                    *)
(***************************************************************************)
Kept == {"categories", "amenities", "page"}

LoadOf(found) == [at : {"load"}, what : Kept, rows : {found}, crossed : BOOLEAN]

(* A request knows what it needs for where it is. *)
CatCall(c) ==
    /\ c.at \in {"idle", "load", "file", "edit", "remove", "drop"}
    /\ c.at = "load" => c \in LoadOf(c.rows)
    /\ c.at = "file" => /\ c.home \in Homes /\ c.slug \in Slugs /\ c.was \in Slugs \cup {None}
                        /\ c.answers \subseteq Questions /\ c.keys \subseteq Amenities
                        /\ c.was = None => c.answers \subseteq c.asks
    /\ c.at = "edit" => c.slug \in Slugs /\ c.kind \in Kinds
    /\ c.at = "remove" => /\ c.slug \in Slugs
                          /\ c.moveTo \in (Slugs \ {c.slug}) \cup {None}

CallsKnow ==
    /\ catCalls = [r \in Requests |-> catCalls[r]]
    /\ \A r \in Requests : CatCall(catCalls[r])

(* A load that no change has crossed brings the rows there are. *)
LoadsFresh == \A r \in Requests :
    \A what \in Kept :
        catCalls[r].at = "load" /\ catCalls[r].what = what /\ catCalls[r].crossed = FALSE
            => catCalls[r].rows = Rows(what)

(* An advert that is updated is there. *)
UpdatesFind == \A r \in Requests :
    catCalls[r].at = "file" /\ catCalls[r].was # None => catCalls[r].home \in DOMAIN homes

CopiesAgree == \A what \in Kept \ astray : Copy(what) \in {None, Rows(what)}

Resolves(l) ==
    /\ homes[l].slug \in DOMAIN categories
    /\ "floor" \in homes[l].answers => "floor" \in categories[homes[l].slug].asks
    /\ homes[l].keys \subseteq amenities
AdvertsResolve == \A l \in DOMAIN homes \ raced : Resolves(l)

CatalogueInv == /\ CatalogueTypeOK /\ CallsKnow /\ LoadsFresh /\ UpdatesFind
                /\ CopiesAgree /\ AdvertsResolve

-----------------------------------------------------------------------------
(* In the beginning no copy is kept and no request is under way.           *)
LEMMA CatalogueInitInv == CatalogueInit => CatalogueInv
<1> SUFFICES ASSUME CatalogueInit PROVE CatalogueInv
  OBVIOUS
<1>1. CatalogueTypeOK
  BY DEF CatalogueInit, CatalogueTypeOK, Kinds
<1>2. CallsKnow /\ LoadsFresh /\ UpdatesFind
  BY DEF CatalogueInit, CallsKnow, CatCall, LoadsFresh, UpdatesFind, Idle
<1>3. CopiesAgree /\ AdvertsResolve
  BY DEF CatalogueInit, CopiesAgree, Copy, Kept, AdvertsResolve
<1> QED
  BY <1>1, <1>2, <1>3 DEF CatalogueInv

(* The tables, the copies and the adverts stand, and a request goes on to  *)
(* a call that knows what it needs.                                        *)
LEMMA CatGoesInv ==
    ASSUME CatalogueInv, NEW r \in Requests, NEW c, CatGoes(r, c), CatCall(c),
           c.at = "load" => c.rows = Rows(c.what),
           c.at = "file" /\ c.was # None => c.home \in DOMAIN homes,
           UNCHANGED <<categories, amenities, categoryCache, amenityCache, page, astray,
                       homes, raced>>
    PROVE  CatalogueInv'
<1>1. /\ catCalls' = [q \in Requests |-> catCalls'[q]]
      /\ \A q \in Requests : catCalls'[q] = IF q = r THEN c ELSE catCalls[q]
  BY DEF CatGoes, CatalogueInv, CallsKnow
<1>2. CallsKnow'
  BY <1>1 DEF CatalogueInv, CallsKnow
<1>3. LoadsFresh'
  <2>1. \A what : Rows(what)' = Rows(what)
    BY DEF Rows
  <2>2. ASSUME NEW q \in Requests, NEW what \in Kept,
               catCalls'[q].at = "load", catCalls'[q].what = what,
               catCalls'[q].crossed = FALSE
        PROVE  catCalls'[q].rows = Rows(what)
    BY <1>1, <2>2 DEF CatalogueInv, LoadsFresh
  <2> QED
    BY <2>1, <2>2 DEF LoadsFresh
<1>4. UpdatesFind'
  BY <1>1 DEF CatalogueInv, UpdatesFind
<1>5. CatalogueTypeOK' /\ CopiesAgree' /\ AdvertsResolve'
  BY DEF CatalogueInv, CatalogueTypeOK, CopiesAgree, Copy, Rows, AdvertsResolve, Resolves
<1> QED
  BY <1>2, <1>3, <1>4, <1>5 DEF CatalogueInv

(* A change of one table drops its copy and crosses the loads of it.       *)
LEMMA SettlesInv ==
    ASSUME CatalogueInv, NEW r, NEW w \in Kept, Settles(r, w), Copy(w)' = None,
           \A x \in Kept : x # w => Copy(x)' = Copy(x) /\ Rows(x)' = Rows(x),
           astray' = astray, DOMAIN homes \subseteq DOMAIN homes'
    PROVE  CallsKnow' /\ LoadsFresh' /\ UpdatesFind' /\ CopiesAgree'
<1>1. catCalls' = [q \in Requests |->
                     IF q = r THEN Idle
                     ELSE IF q \in Loads(w) THEN [catCalls[q] EXCEPT !.crossed = TRUE]
                     ELSE catCalls[q]]
  BY DEF Settles
<1>3. ASSUME NEW q \in Requests
      PROVE  \/ catCalls'[q] = Idle /\ catCalls'[q].at = "idle"
             \/ catCalls'[q] = catCalls[q] /\ q \notin Loads(w)
             \/ /\ q \in Loads(w)
                /\ catCalls'[q] \in LoadOf(catCalls'[q].rows)
                /\ catCalls'[q].at = "load" /\ catCalls'[q].crossed = TRUE
  <2>1. CASE q \in Loads(w)
    <3>1. PICK c, found : c = catCalls[q] /\ found = catCalls[q].rows
      OBVIOUS
    <3>2. c \in LoadOf(found)
      BY <2>1, <3>1 DEF Loads, CatalogueInv, CallsKnow, CatCall
    <3>3. PICK d : d = [c EXCEPT !.crossed = TRUE]
      OBVIOUS
    <3>4. d \in LoadOf(found) /\ d.at = "load" /\ d.rows = found /\ d.crossed = TRUE
      BY <3>2, <3>3 DEF LoadOf
    <3>5. catCalls'[q] = Idle \/ catCalls'[q] = d
      BY <1>1, <2>1, <3>1, <3>3
    <3> QED
      BY <2>1, <3>4, <3>5 DEF Idle
  <2>2. CASE q \notin Loads(w)
    BY <1>1, <2>2 DEF Idle
  <2> QED
    BY <2>1, <2>2
<1>4. CallsKnow'
  <2>1. CatCall(Idle)
    BY DEF CatCall, Idle
  <2>2. ASSUME NEW c, c \in LoadOf(c.rows) PROVE CatCall(c)
    BY <2>2 DEF CatCall, LoadOf
  <2>3. \A q \in Requests : CatCall(catCalls[q])
    BY DEF CatalogueInv, CallsKnow
  <2>4. \A q \in Requests : CatCall(catCalls'[q])
    BY <1>3, <2>1, <2>2, <2>3
  <2>5. catCalls' = [q \in Requests |-> catCalls'[q]]
    BY <1>1
  <2> QED
    BY <2>4, <2>5 DEF CallsKnow
<1>5. LoadsFresh'
  <2> SUFFICES ASSUME NEW q \in Requests, NEW x \in Kept, catCalls'[q].at = "load",
                      catCalls'[q].what = x, catCalls'[q].crossed = FALSE
               PROVE  catCalls'[q].rows = Rows(x)'
    BY DEF LoadsFresh
  <2>1. catCalls'[q] = catCalls[q] /\ q \notin Loads(w)
    BY <1>3 DEF Idle
  <2>2. x # w /\ catCalls[q].rows = Rows(x)
    BY <2>1 DEF CatalogueInv, LoadsFresh, Loads
  <2> QED
    BY <2>1, <2>2
<1>6. UpdatesFind'
  <2>1. \A q \in Requests : catCalls'[q].at = "file" => catCalls'[q] = catCalls[q]
    BY <1>3 DEF Idle
  <2> QED
    BY <2>1 DEF CatalogueInv, UpdatesFind
<1>7. CopiesAgree'
  BY DEF CatalogueInv, CopiesAgree
<1> QED
  BY <1>4, <1>5, <1>6, <1>7

(* Starting to load a copy, or reading the category before a save, an edit *)
(* or an advert, changes no row.                                           *)
LEMMA AsksCatInv ==
    ASSUME CatalogueInv, NEW r \in Requests,
           \/ \E what \in Kept : BeginLoad(r, what)
           \/ \E l \in Homes, s \in Slugs, a \in SUBSET Questions, k \in SUBSET Amenities :
                CheckCreate(r, l, s, a, k) \/ CheckUpdate(r, l, s, a, k)
           \/ \E s \in Slugs, kind \in Kinds : AskEdit(r, s, kind)
           \/ \E s, t \in Slugs : AskRemove(r, s, t)
           \/ \E key \in Amenities : AskDrop(r, key)
    PROVE  CatalogueInv'
<1>1. ASSUME NEW what \in Kept, BeginLoad(r, what) PROVE CatalogueInv'
  <2>1. PICK c : c = [at |-> "load", what |-> what, rows |-> Rows(what), crossed |-> FALSE]
    OBVIOUS
  <2>2. CatCall(c) /\ c.at = "load" /\ c.rows = Rows(c.what)
    BY <2>1 DEF CatCall, LoadOf
  <2>3. CatGoes(r, c) /\ UNCHANGED <<categories, amenities, categoryCache, amenityCache, page,
                                    astray, homes, raced>>
    BY <1>1, <2>1 DEF BeginLoad, tables, copies
  <2> QED
    BY <2>2, <2>3, CatGoesInv
<1>2. ASSUME NEW l \in Homes, NEW s \in Slugs, NEW a \in SUBSET Questions,
             NEW k \in SUBSET Amenities, CheckCreate(r, l, s, a, k)
      PROVE  CatalogueInv'
  <2>1. PICK c : c = [at |-> "file", home |-> l, slug |-> s, was |-> None, answers |-> a,
                      keys |-> k, asks |-> categoryCache[s].asks]
    OBVIOUS
  <2>2. CatCall(c) /\ c.at = "file" /\ c.was = None
    BY <1>2, <2>1 DEF CatCall, CheckCreate
  <2>3. CatGoes(r, c) /\ UNCHANGED <<categories, amenities, categoryCache, amenityCache, page,
                                    astray, homes, raced>>
    BY <1>2, <2>1 DEF CheckCreate, tables, copies
  <2> QED
    BY <2>2, <2>3, CatGoesInv
<1>3. ASSUME NEW l \in Homes, NEW s \in Slugs, NEW a \in SUBSET Questions,
             NEW k \in SUBSET Amenities, CheckUpdate(r, l, s, a, k)
      PROVE  CatalogueInv'
  <2>1. PICK asks : CatGoes(r, [at |-> "file", home |-> l, slug |-> s, was |-> homes[l].slug,
                                answers |-> a, keys |-> k, asks |-> asks])
    BY <1>3 DEF CheckUpdate
  <2>2. PICK c : c = [at |-> "file", home |-> l, slug |-> s, was |-> homes[l].slug,
                      answers |-> a, keys |-> k, asks |-> asks]
    OBVIOUS
  <2>3. l \in DOMAIN homes /\ homes[l].slug \in Slugs
    BY <1>3 DEF CheckUpdate, CatalogueInv, CatalogueTypeOK
  <2>4. CatCall(c) /\ c.at = "file" /\ c.home \in DOMAIN homes
    BY <2>2, <2>3, CatalogueNames DEF CatCall
  <2>5. CatGoes(r, c) /\ UNCHANGED <<categories, amenities, categoryCache, amenityCache, page,
                                    astray, homes, raced>>
    BY <1>3, <2>1, <2>2 DEF CheckUpdate, tables, copies
  <2> QED
    BY <2>4, <2>5, CatGoesInv
<1>4. ASSUME NEW s \in Slugs, NEW kind \in Kinds, AskEdit(r, s, kind) PROVE CatalogueInv'
  <2>1. PICK c : c = [at |-> "edit", slug |-> s, kind |-> kind,
                      cleared |-> categories[s].asks \ kind.asks]
    OBVIOUS
  <2>2. CatCall(c) /\ c.at = "edit"
    BY <2>1 DEF CatCall
  <2>3. CatGoes(r, c) /\ UNCHANGED <<categories, amenities, categoryCache, amenityCache, page,
                                    astray, homes, raced>>
    BY <1>4, <2>1 DEF AskEdit, tables, copies
  <2> QED
    BY <2>2, <2>3, CatGoesInv
<1>5. ASSUME NEW s \in Slugs, NEW t \in Slugs, AskRemove(r, s, t) PROVE CatalogueInv'
  <2>1. PICK c : c = IF FiledUnder(s) = {}
                     THEN [at |-> "remove", slug |-> s, moveTo |-> None, asks |-> {}]
                     ELSE [at |-> "remove", slug |-> s, moveTo |-> t,
                           asks |-> categories[t].asks]
    OBVIOUS
  <2>2. FiledUnder(s) # {} => t # s
    BY <1>5 DEF AskRemove
  <2>3. CatCall(c) /\ c.at = "remove"
    BY <2>1, <2>2 DEF CatCall
  <2>4. CatGoes(r, c) /\ UNCHANGED <<categories, amenities, categoryCache, amenityCache, page,
                                    astray, homes, raced>>
    BY <1>5, <2>1 DEF AskRemove, tables, copies
  <2> QED
    BY <2>3, <2>4, CatGoesInv
<1>6. ASSUME NEW key \in Amenities, AskDrop(r, key) PROVE CatalogueInv'
  <2>1. PICK c : c = [at |-> "drop", key |-> key, inUse |-> Picked(key) # {}]
    OBVIOUS
  <2>2. CatCall(c) /\ c.at = "drop"
    BY <2>1 DEF CatCall
  <2>3. CatGoes(r, c) /\ UNCHANGED <<categories, amenities, categoryCache, amenityCache, page,
                                    astray, homes, raced>>
    BY <1>6, <2>1 DEF AskDrop, tables, copies
  <2> QED
    BY <2>2, <2>3, CatGoesInv
<1> QED
  BY <1>1, <1>2, <1>3, <1>4, <1>5, <1>6

(* A load ends, whatever was dropped meanwhile; a page expires.            *)
LEMMA EndLoadInv ==
    ASSUME CatalogueInv, NEW r \in Requests, EndLoad(r)
    PROVE  CatalogueInv'
<1>1. PICK what, found, late :
        /\ what \in Kept /\ late \in BOOLEAN
        /\ what = catCalls[r].what /\ found = catCalls[r].rows /\ late = catCalls[r].crossed
  <2>1. catCalls[r].what \in Kept /\ catCalls[r].crossed \in BOOLEAN
    BY DEF EndLoad, CatalogueInv, CallsKnow, CatCall, LoadOf
  <2> QED
    BY <2>1
<1>2. /\ categoryCache' = IF what = "categories" THEN found ELSE categoryCache
      /\ amenityCache' = IF what = "amenities" THEN found ELSE amenityCache
      /\ page' = IF what = "page" THEN found ELSE page
      /\ astray' = IF late THEN astray \cup {what} ELSE astray \ {what}
      /\ CatGoes(r, Idle) /\ UNCHANGED <<categories, amenities, homes, raced>>
      /\ catCalls[r].at = "load"
  BY <1>1 DEF EndLoad, tables
<1>3. /\ catCalls' = [q \in Requests |-> catCalls'[q]]
      /\ \A q \in Requests : catCalls'[q] = IF q = r THEN Idle ELSE catCalls[q]
  BY <1>2 DEF CatGoes, CatalogueInv, CallsKnow
<1>4. CallsKnow'
  <2>1. CatCall(Idle)
    BY DEF CatCall, Idle
  <2> QED
    BY <1>3, <2>1 DEF CatalogueInv, CallsKnow
<1>5. LoadsFresh' /\ UpdatesFind'
  <2>1. \A q \in Requests : catCalls'[q].at # "idle" => catCalls'[q] = catCalls[q]
    BY <1>3 DEF Idle
  <2>2. LoadsFresh'
    BY <1>2, <2>1 DEF CatalogueInv, LoadsFresh, Rows
  <2>3. UpdatesFind'
    BY <1>2, <2>1 DEF CatalogueInv, UpdatesFind
  <2> QED
    BY <2>2, <2>3
<1>6. ~late => found = Rows(what)
  BY <1>1, <1>2 DEF CatalogueInv, LoadsFresh
<1>7. CopiesAgree'
  <2> SUFFICES ASSUME NEW x \in Kept \ astray' PROVE Copy(x)' \in {None, Rows(x)'}
    BY DEF CopiesAgree
  <2>1. Rows(x)' = Rows(x)
    BY <1>2 DEF Rows
  <2>2. CASE x = what
    <3>1. Copy(x)' = found
      BY <1>2, <2>2 DEF Copy, Kept
    <3> QED
      BY <1>2, <1>6, <2>1, <2>2, <3>1
  <2>3. CASE x # what
    <3>1. Copy(x)' = Copy(x)
      BY <1>2, <2>3 DEF Copy, Kept
    <3>2. x \notin astray
      BY <1>2, <2>3
    <3> QED
      BY <2>1, <3>1, <3>2 DEF CatalogueInv, CopiesAgree
  <2> QED
    BY <2>2, <2>3
<1>8. CatalogueTypeOK' /\ AdvertsResolve'
  BY <1>2 DEF CatalogueInv, CatalogueTypeOK, AdvertsResolve, Resolves
<1> QED
  BY <1>4, <1>5, <1>7, <1>8 DEF CatalogueInv

(* A page of the feed that has grown old is dropped, and nothing else.     *)
LEMMA PageExpiresInv ==
    ASSUME CatalogueInv, PageExpires
    PROVE  CatalogueInv'
<1>1. /\ page' = None
      /\ UNCHANGED <<categories, amenities, categoryCache, amenityCache, astray, homes,
                     catCalls, raced>>
  BY DEF PageExpires, tables
<1>2. CatalogueTypeOK' /\ CallsKnow' /\ LoadsFresh' /\ UpdatesFind' /\ AdvertsResolve'
  BY <1>1 DEF CatalogueInv, CatalogueTypeOK, CallsKnow, LoadsFresh, UpdatesFind, Rows,
     AdvertsResolve, Resolves
<1>3. CopiesAgree'
  BY <1>1 DEF CatalogueInv, CopiesAgree, Copy, Rows, Kept
<1> QED
  BY <1>2, <1>3 DEF CatalogueInv

(* An advert is filed as it was checked, and counts as raced unless the    *)
(* check still holds.                                                      *)
LEMMA FileHomeInv ==
    ASSUME CatalogueInv, NEW r \in Requests, FileHome(r)
    PROVE  CatalogueInv'
<1>1. PICK call : call = catCalls[r]
  OBVIOUS
<1>2. PICK new : new = Filed(call)
  OBVIOUS
<1>3. /\ call.at = "file" /\ CatCall(call)
      /\ homes' = With(homes, call.home, new)
      /\ raced' = IF StillFits(call) THEN raced ELSE raced \cup {call.home}
      /\ page' = None /\ Settles(r, "page")
      /\ UNCHANGED <<categories, amenities, categoryCache, amenityCache, astray>>
  BY <1>1, <1>2 DEF FileHome, tables, CatalogueInv, CallsKnow
<1>4. /\ call.home \in Homes /\ call.slug \in Slugs /\ call.was \in Slugs \cup {None}
      /\ call.answers \subseteq Questions /\ call.keys \subseteq Amenities
      /\ call.was = None => call.answers \subseteq call.asks
      /\ call.was # None => call.home \in DOMAIN homes
  BY <1>1, <1>3 DEF CatCall, CatalogueInv, UpdatesFind
<1>5. \A l \in DOMAIN homes :
        homes[l] \in [slug : Slugs, answers : SUBSET Questions, keys : SUBSET Amenities]
  BY DEF CatalogueInv, CatalogueTypeOK
<1>6. new \in [slug : Slugs, answers : SUBSET Questions, keys : SUBSET Amenities]
  <2>1. CASE call.was = None
    BY <1>2, <1>4, <2>1 DEF Filed
  <2>2. CASE call.was # None
    <3>1. PICK old \in [slug : Slugs, answers : SUBSET Questions, keys : SUBSET Amenities] :
            old = homes[call.home]
      BY <1>4, <1>5, <2>2
    <3>2. ApplyFloors(old.answers \cup call.answers, call.asks) \subseteq Questions
      BY <1>4, <3>1 DEF ApplyFloors
    <3> QED
      BY <1>2, <1>4, <2>2, <3>1, <3>2 DEF Filed
  <2> QED
    BY <2>1, <2>2
<1>7. /\ DOMAIN homes' = DOMAIN homes \cup {call.home}
      /\ \A l \in DOMAIN homes' : homes'[l] = IF l = call.home THEN new ELSE homes[l]
  BY <1>3 DEF With
<1>8. CatalogueTypeOK'
  BY <1>3, <1>4, <1>6, <1>7 DEF CatalogueInv, CatalogueTypeOK
<1>9. CallsKnow' /\ LoadsFresh' /\ UpdatesFind' /\ CopiesAgree'
  <2>1. Copy("page")' = None
    BY <1>3 DEF Copy
  <2>2. \A x \in Kept : x # "page" => Copy(x)' = Copy(x) /\ Rows(x)' = Rows(x)
    BY <1>3 DEF Copy, Rows, Kept
  <2>3. "page" \in Kept
    BY DEF Kept
  <2> QED
    BY <1>3, <1>7, <2>1, <2>2, <2>3, SettlesInv
<1>10. AdvertsResolve'
  <2> SUFFICES ASSUME NEW l \in DOMAIN homes' \ raced'
               PROVE  /\ homes'[l].slug \in DOMAIN categories
                      /\ "floor" \in homes'[l].answers
                            => "floor" \in categories[homes'[l].slug].asks
                      /\ homes'[l].keys \subseteq amenities
    BY <1>3 DEF AdvertsResolve, Resolves
  <2>1. CASE l # call.home
    BY <1>3, <1>7, <2>1 DEF CatalogueInv, AdvertsResolve, Resolves
  <2>2. CASE l = call.home
    <3>1. StillFits(call)
      BY <1>3, <2>2
    <3>2. /\ new.slug = call.slug /\ new.keys = call.keys
          /\ "floor" \in new.answers => "floor" \in call.asks
      BY <1>2, <1>4, <3>1 DEF Filed, StillFits, ApplyFloors
    <3> QED
      BY <1>7, <2>2, <3>1, <3>2 DEF StillFits
  <2> QED
    BY <2>1, <2>2
<1> QED
  BY <1>8, <1>9, <1>10 DEF CatalogueInv

HomeRow == [slug : Slugs, answers : SUBSET Questions, keys : SUBSET Amenities]

(* One of the tables changes, and the adverts with it.                     *)
LEMMA TableInv ==
    ASSUME CatalogueInv, NEW r, NEW w \in {"categories", "amenities"}, Settles(r, w),
           Copy(w)' = None,
           \A x \in Kept : x # w => Copy(x)' = Copy(x) /\ Rows(x)' = Rows(x),
           astray' = astray, DOMAIN homes' = DOMAIN homes,
           DOMAIN categories' \subseteq Slugs,
           \A s \in DOMAIN categories' : categories'[s] \in Kinds,
           amenities' \subseteq Amenities,
           \A l \in DOMAIN homes : homes'[l] \in HomeRow,
           raced \subseteq raced',
           \A l \in DOMAIN homes \ raced' : Resolves(l) => Resolves(l)'
    PROVE  CatalogueInv'
<1>1. CallsKnow' /\ LoadsFresh' /\ UpdatesFind' /\ CopiesAgree'
  <2>1. w \in Kept
    BY DEF Kept
  <2> QED
    BY <2>1, SettlesInv
<1>2. CatalogueTypeOK'
  BY DEF CatalogueInv, CatalogueTypeOK, HomeRow
<1>3. AdvertsResolve'
  BY DEF CatalogueInv, AdvertsResolve
<1> QED
  BY <1>1, <1>2, <1>3 DEF CatalogueInv

(* A category or an amenity is created, and the copies are cleared in the  *)
(* same step.                                                              *)
LEMMA CreateInv ==
    ASSUME CatalogueInv,
           \/ \E s \in Slugs, kind \in Kinds : CreateCategory(s, kind)
           \/ \E key \in Amenities : CreateAmenity(key)
    PROVE  CatalogueInv'
<1>0. /\ \A l \in DOMAIN homes : homes[l] \in HomeRow
      /\ DOMAIN categories \subseteq Slugs /\ amenities \subseteq Amenities
      /\ \A s \in DOMAIN categories : categories[s] \in Kinds
  BY DEF CatalogueInv, CatalogueTypeOK, HomeRow
<1>1. ASSUME NEW s \in Slugs, NEW kind \in Kinds, CreateCategory(s, kind) PROVE CatalogueInv'
  <2>1. /\ s \notin DOMAIN categories /\ categories' = With(categories, s, kind)
        /\ categoryCache' = None /\ Settles(None, "categories")
        /\ UNCHANGED <<amenities, amenityCache, page, astray, homes, raced>>
    BY <1>1 DEF CreateCategory, Invalidate
  <2>2. /\ DOMAIN categories' = DOMAIN categories \cup {s} /\ categories'[s] = kind
        /\ \A t \in DOMAIN categories : categories'[t] = categories[t]
    BY <2>1 DEF With
  <2>3. \A l : Resolves(l) => Resolves(l)'
    BY <2>1, <2>2 DEF Resolves
  <2>4. Copy("categories")' = None
    BY <2>1 DEF Copy
  <2>5. \A x \in Kept : x # "categories" => Copy(x)' = Copy(x) /\ Rows(x)' = Rows(x)
    BY <2>1 DEF Copy, Rows, Kept
  <2>6. \A t \in DOMAIN categories' : categories'[t] \in Kinds
    BY <1>0, <2>2
  <2> QED
    BY <1>0, <2>1, <2>2, <2>3, <2>4, <2>5, <2>6, TableInv
<1>2. ASSUME NEW key \in Amenities, CreateAmenity(key) PROVE CatalogueInv'
  <2>1. /\ amenities' = amenities \cup {key} /\ amenityCache' = None
        /\ Settles(None, "amenities")
        /\ UNCHANGED <<categories, categoryCache, page, astray, homes, raced>>
    BY <1>2 DEF CreateAmenity
  <2>2. \A l : Resolves(l) => Resolves(l)'
    BY <2>1 DEF Resolves
  <2>3. Copy("amenities")' = None
    BY <2>1 DEF Copy
  <2>4. \A x \in Kept : x # "amenities" => Copy(x)' = Copy(x) /\ Rows(x)' = Rows(x)
    BY <2>1 DEF Copy, Rows, Kept
  <2> QED
    BY <1>0, <2>1, <2>2, <2>3, <2>4, TableInv
<1> QED
  BY <1>1, <1>2

(* What a category no longer asks is cleared from its adverts, as it was   *)
(* read before.                                                            *)
LEMMA SaveEditInv ==
    ASSUME CatalogueInv, NEW r \in Requests, SaveEdit(r)
    PROVE  CatalogueInv'
<1>1. PICK slug \in Slugs, kind \in Kinds :
        slug = catCalls[r].slug /\ kind = catCalls[r].kind
  BY DEF SaveEdit, CatalogueInv, CallsKnow, CatCall
<1>2. PICK cleared, under : cleared = catCalls[r].cleared /\ under = FiledUnder(slug)
  OBVIOUS
<1>3. /\ categories' = IF slug \in DOMAIN categories
                       THEN With(categories, slug, kind) ELSE categories
      /\ homes' = [l \in DOMAIN homes |-> IF l \in under
                      THEN [homes[l] EXCEPT !.answers = @ \ cleared] ELSE homes[l]]
      /\ raced' = IF slug \in DOMAIN categories /\ categories[slug].asks \ kind.asks = cleared
                  THEN raced ELSE raced \cup under
      /\ categoryCache' = None /\ Settles(r, "categories")
      /\ UNCHANGED <<amenities, amenityCache, page, astray>>
  BY <1>1, <1>2 DEF SaveEdit, Invalidate
<1>4. /\ \A l \in DOMAIN homes : homes[l] \in HomeRow
      /\ DOMAIN categories \subseteq Slugs /\ amenities \subseteq Amenities
      /\ \A s \in DOMAIN categories : categories[s] \in Kinds
  BY DEF CatalogueInv, CatalogueTypeOK, HomeRow
<1>5. /\ DOMAIN homes' = DOMAIN homes
      /\ \A l \in DOMAIN homes :
           /\ homes'[l] \in HomeRow
           /\ homes'[l].slug = homes[l].slug /\ homes'[l].keys = homes[l].keys
           /\ homes'[l].answers = IF l \in under THEN homes[l].answers \ cleared
                                                 ELSE homes[l].answers
  BY <1>3, <1>4 DEF HomeRow
<1>6. /\ DOMAIN categories' = DOMAIN categories
      /\ \A s \in DOMAIN categories :
           /\ categories'[s] \in Kinds
           /\ categories'[s] = IF s = slug THEN kind ELSE categories[s]
  BY <1>3, <1>4 DEF With
<1>7. ASSUME NEW l \in DOMAIN homes \ raced', Resolves(l) PROVE Resolves(l)'
  <2> SUFFICES ASSUME TRUE
               PROVE  /\ homes'[l].slug \in DOMAIN categories'
                      /\ "floor" \in homes'[l].answers
                            => "floor" \in categories'[homes'[l].slug].asks
                      /\ homes'[l].keys \subseteq amenities'
    BY DEF Resolves
  <2>1. CASE l \in under
    <3>1. homes[l].slug = slug
      BY <1>2, <2>1 DEF FiledUnder
    <3>2. slug \in DOMAIN categories /\ categories[slug].asks \ kind.asks = cleared
      BY <1>3, <2>1
    <3>3. /\ homes'[l].slug = slug /\ categories'[slug] = kind
          /\ homes'[l].keys = homes[l].keys
          /\ homes'[l].answers = homes[l].answers \ cleared
      BY <1>5, <1>6, <2>1, <3>1, <3>2
    <3>4. /\ "floor" \in homes[l].answers => "floor" \in categories[slug].asks
          /\ homes[l].keys \subseteq amenities
      BY <1>7, <3>1 DEF Resolves
    <3> QED
      BY <1>3, <1>6, <3>2, <3>3, <3>4
  <2>2. CASE l \notin under
    <3>1. homes[l].slug # slug
      BY <1>2, <2>2 DEF FiledUnder
    <3> QED
      BY <1>3, <1>5, <1>6, <1>7, <2>2, <3>1 DEF Resolves
  <2> QED
    BY <2>1, <2>2
<1>8. Copy("categories")' = None
  BY <1>3 DEF Copy
<1>9. \A x \in Kept : x # "categories" => Copy(x)' = Copy(x) /\ Rows(x)' = Rows(x)
  BY <1>3, <1>5 DEF Copy, Rows, Kept
<1>10. raced \subseteq raced'
  BY <1>3
<1> QED
  BY <1>3, <1>4, <1>5, <1>6, <1>7, <1>8, <1>9, <1>10, TableInv

(* The adverts move to another category, and keep what it asked.           *)
LEMMA CommitRemoveInv ==
    ASSUME CatalogueInv, NEW r \in Requests, CommitRemove(r)
    PROVE  CatalogueInv'
<1>1. PICK slug, to : /\ slug = catCalls[r].slug /\ to = catCalls[r].moveTo
                     /\ slug \in Slugs /\ to \in (Slugs \ {slug}) \cup {None}
  BY DEF CommitRemove, CatalogueInv, CallsKnow, CatCall
<1>2. PICK asks, under, moved : /\ asks = catCalls[r].asks /\ under = FiledUnder(slug)
                                /\ moved = IF to = None THEN {} ELSE under
  OBVIOUS
<1>3. /\ homes' = [l \in DOMAIN homes |-> IF l \in moved
                      THEN [homes[l] EXCEPT !.slug = to, !.answers = @ \cap asks]
                      ELSE homes[l]]
      /\ categories' = Without(categories, {slug})
      /\ raced' = IF to \in DOMAIN categories /\ categories[to].asks = asks
                  THEN raced ELSE raced \cup under
      /\ categoryCache' = None /\ Settles(r, "categories")
      /\ UNCHANGED <<amenities, amenityCache, page, astray>>
  BY <1>1, <1>2 DEF CommitRemove, Invalidate
<1>4. /\ \A l \in DOMAIN homes : homes[l] \in HomeRow
      /\ DOMAIN categories \subseteq Slugs /\ amenities \subseteq Amenities
      /\ \A s \in DOMAIN categories : categories[s] \in Kinds
  BY DEF CatalogueInv, CatalogueTypeOK, HomeRow
<1>5. /\ DOMAIN homes' = DOMAIN homes
      /\ \A l \in DOMAIN homes :
           /\ homes'[l] \in HomeRow
           /\ homes'[l].keys = homes[l].keys
           /\ l \in moved => homes'[l].slug = to /\ homes'[l].answers = homes[l].answers \cap asks
           /\ l \notin moved => homes'[l] = homes[l]
  <2>1. \A l \in moved : to \in Slugs
    BY <1>1, <1>2
  <2> QED
    BY <2>1, <1>3, <1>4 DEF HomeRow
<1>6. /\ DOMAIN categories' = DOMAIN categories \ {slug}
      /\ \A s \in DOMAIN categories' : categories'[s] = categories[s]
  BY <1>3 DEF Without
<1>7. ASSUME NEW l \in DOMAIN homes \ raced', Resolves(l) PROVE Resolves(l)'
  <2> SUFFICES ASSUME TRUE
               PROVE  /\ homes'[l].slug \in DOMAIN categories'
                      /\ "floor" \in homes'[l].answers
                            => "floor" \in categories'[homes'[l].slug].asks
                      /\ homes'[l].keys \subseteq amenities'
    BY DEF Resolves
  <2>1. CASE l \in under
    <3>1. to \in DOMAIN categories /\ categories[to].asks = asks
      BY <1>3, <2>1
    <3>2. to # None /\ to # slug
      BY <1>1, <1>4, <3>1, CatalogueNames
    <3>3. l \in moved
      BY <1>2, <2>1, <3>2
    <3>4. /\ homes'[l].slug = to /\ homes'[l].keys = homes[l].keys
          /\ homes'[l].answers = homes[l].answers \cap asks
      BY <1>5, <3>3
    <3>5. to \in DOMAIN categories' /\ categories'[to].asks = asks
      BY <1>6, <3>1, <3>2
    <3>6. homes[l].keys \subseteq amenities
      BY <1>7 DEF Resolves
    <3> QED
      BY <1>3, <3>4, <3>5, <3>6
  <2>2. CASE l \notin under
    <3>1. homes[l].slug # slug
      BY <1>2, <2>2 DEF FiledUnder
    <3>2. homes'[l] = homes[l]
      BY <1>2, <1>5, <2>2
    <3> QED
      BY <1>3, <1>6, <1>7, <3>1, <3>2 DEF Resolves
  <2> QED
    BY <2>1, <2>2
<1>8. Copy("categories")' = None
  BY <1>3 DEF Copy
<1>9. \A x \in Kept : x # "categories" => Copy(x)' = Copy(x) /\ Rows(x)' = Rows(x)
  BY <1>3, <1>5 DEF Copy, Rows, Kept
<1>10. raced \subseteq raced'
  BY <1>3
<1> QED
  BY <1>3, <1>4, <1>5, <1>6, <1>7, <1>8, <1>9, <1>10, TableInv

(* An amenity goes from the adverts that picked it, if any had when they   *)
(* were counted.                                                           *)
LEMMA CommitDropInv ==
    ASSUME CatalogueInv, NEW r \in Requests, CommitDrop(r)
    PROVE  CatalogueInv'
<1>1. PICK key, inUse : key = catCalls[r].key /\ inUse = catCalls[r].inUse
  OBVIOUS
<1>2. /\ amenities' = amenities \ {key}
      /\ homes' = IF ~inUse THEN homes
                  ELSE [l \in DOMAIN homes |-> [homes[l] EXCEPT !.keys = @ \ {key}]]
      /\ raced' = IF inUse THEN raced ELSE raced \cup Picked(key)
      /\ amenityCache' = None /\ Settles(r, "amenities")
      /\ UNCHANGED <<categories, categoryCache, page, astray>>
  BY <1>1 DEF CommitDrop
<1>3. /\ \A l \in DOMAIN homes : homes[l] \in HomeRow
      /\ DOMAIN categories \subseteq Slugs /\ amenities \subseteq Amenities
      /\ \A s \in DOMAIN categories : categories[s] \in Kinds
  BY DEF CatalogueInv, CatalogueTypeOK, HomeRow
<1>4. /\ DOMAIN homes' = DOMAIN homes
      /\ \A l \in DOMAIN homes :
           /\ homes'[l] \in HomeRow
           /\ homes'[l].slug = homes[l].slug /\ homes'[l].answers = homes[l].answers
           /\ homes'[l].keys = IF inUse THEN homes[l].keys \ {key} ELSE homes[l].keys
  BY <1>2, <1>3 DEF HomeRow
<1>5. ASSUME NEW l \in DOMAIN homes \ raced', Resolves(l) PROVE Resolves(l)'
  <2>1. ~inUse => key \notin homes[l].keys
    BY <1>2 DEF Picked
  <2> QED
    BY <1>2, <1>4, <1>5, <2>1 DEF Resolves
<1>6. Copy("amenities")' = None
  BY <1>2 DEF Copy
<1>7. \A x \in Kept : x # "amenities" => Copy(x)' = Copy(x) /\ Rows(x)' = Rows(x)
  BY <1>2, <1>4 DEF Copy, Rows, Kept
<1> QED
  BY <1>2, <1>3, <1>4, <1>5, <1>6, <1>7, TableInv

(* Every step of the catalogue keeps the invariant.                        *)
LEMMA CatalogueNextInv == CatalogueInv /\ [CatalogueNext]_catalogueVars => CatalogueInv'
<1> SUFFICES ASSUME CatalogueInv, [CatalogueNext]_catalogueVars PROVE CatalogueInv'
  OBVIOUS
<1>1. CASE UNCHANGED catalogueVars
  <2>1. UNCHANGED <<categories, amenities, categoryCache, amenityCache, page, astray, homes,
                    catCalls, raced>>
    BY <1>1 DEF catalogueVars, tables, copies
  <2>2. CatalogueTypeOK' /\ CallsKnow' /\ UpdatesFind'
    BY <2>1 DEF CatalogueInv, CatalogueTypeOK, CallsKnow, UpdatesFind
  <2>3. LoadsFresh' /\ CopiesAgree' /\ AdvertsResolve'
    BY <2>1 DEF CatalogueInv, LoadsFresh, CopiesAgree, AdvertsResolve, Resolves, Copy, Rows
  <2> QED
    BY <2>2, <2>3 DEF CatalogueInv
<1> QED
  BY <1>1, AsksCatInv, EndLoadInv, FileHomeInv, SaveEditInv, CommitRemoveInv, CommitDropInv,
     PageExpiresInv, CreateInv DEF CatalogueNext, Kept

(* An advert's category and amenities are there, and a copy kept of the    *)
(* categories, of the amenities or of a page is what the rows say, unless  *)
(* something changed while it was saved or read, for any categories,       *)
(* adverts and requests (categories.service.ts:182-209, ttl-cache.ts:5).   *)
THEOREM CategoriesAreKept == CatalogueSpec => [](CategoriesResolve /\ CatalogueTypeOK)
<1>1. CatalogueInv => CategoriesResolve /\ CatalogueTypeOK
  BY DEF CatalogueInv, CopiesAgree, AdvertsResolve, Resolves, Kept, CategoriesResolve
<1> QED
  BY <1>1, CatalogueInitInv, CatalogueNextInv, PTL DEF CatalogueSpec

(***************************************************************************)
(* Tours of a listing (Tours)                                              *)
(***************************************************************************)
Issued == 1 .. issued

TourCalls ==
    {Idle}
    \cup [at : {"drop", "dropFile"}, villa : Villas, then : {"create", "end"}, file : Issued]
    \cup [at : {"dropFile"}, villa : {None}, then : {"end"}, file : Issued]
    \cup [at : {"create"}, villa : Villas]
    \cup [at : {"save"}, villa : Villas, file : Issued]
    \cup [at : {"ask"}, file : Issued]
    \cup [at : {"verdict"}, file : Issued, status : {"READY", "FAILED"}]

ToursTyped ==
    /\ ToursTypeOK
    /\ issued \in 0 .. MaxFiles
    /\ \A l \in DOMAIN tours : tours[l].file \in Issued
    /\ tourCalls \in [Requests -> TourCalls]

(* What request r has in hand. *)
About(r, f) == tourCalls[r].at \in {"drop", "dropFile", "save", "ask", "verdict"}
               /\ tourCalls[r].file = f
Dropping(r, f) == tourCalls[r].at = "dropFile" /\ tourCalls[r].file = f
Judging(r, f) == tourCalls[r].at \in {"ask", "verdict"} /\ tourCalls[r].file = f
Found(r, f) == tourCalls[r].at = "verdict" /\ tourCalls[r].file = f
                 /\ tourCalls[r].status = "READY"
SavingTour(r, f) == tourCalls[r].at = "save" /\ tourCalls[r].file = f

(* one row a file *)
OneRow == \A l, m \in DOMAIN tours : tours[l].file = tours[m].file => l = m

(* a file that is being saved is nobody else's *)
Unsaved == \A r \in Requests, f \in Issued : SavingTour(r, f) =>
    /\ f \in DOMAIN remote
    /\ \A l \in DOMAIN tours : tours[l].file # f
    /\ \A q \in Requests \ {r} : ~About(q, f)

(* who is about to drop a file *)
Dropped == \A r \in Requests, f \in Issued : Dropping(r, f) =>
    \A l \in DOMAIN tours : tours[l].file = f =>
        /\ tours[l].status # "UPLOADING"
        /\ f \notin crossed => tours[l].status = "FAILED"

OneJudge == \A f \in Issued \ crossed : \A r \in Requests : Judging(r, f) =>
    /\ \A q \in Requests \ {r} : ~Judging(q, f)
    /\ \A l \in DOMAIN tours : tours[l].file = f => tours[l].status = "UPLOADING"

Playable(f) == f \in DOMAIN remote /\ remote[f] = "playable"

TourShown ==
    /\ \A l \in DOMAIN tours : LET f == tours[l].file IN
          /\ tours[l].status = "READY" /\ f \notin crossed => Playable(f)
          /\ tours[l].status = "UPLOADING" => f \in DOMAIN remote
    /\ \A r \in Requests, f \in Issued \ crossed : Found(r, f) =>
          \A l \in DOMAIN tours : tours[l].file = f => Playable(f)

Stored == \A f \in DOMAIN remote \ leaked :
    \/ \E l \in DOMAIN tours : tours[l].file = f /\ tours[l].status # "FAILED"
    \/ \E r \in Requests : Dropping(r, f) \/ SavingTour(r, f)

ToursInv == ToursTyped /\ OneRow /\ Unsaved /\ Dropped /\ OneJudge /\ TourShown /\ Stored

-----------------------------------------------------------------------------
(* What a request about a tour holds at each of its awaits.                *)
LEMMA TourCallType ==
    ASSUME ToursTyped, NEW r \in Requests
    PROVE  /\ tourCalls[r].at \in {"drop", "dropFile", "save", "ask", "verdict"}
                => tourCalls[r].file \in Issued
           /\ tourCalls[r].at \in {"drop", "create", "save"} => tourCalls[r].villa \in Villas
           /\ tourCalls[r].at = "verdict" => tourCalls[r].status \in {"READY", "FAILED"}
BY DEF ToursTyped, TourCalls, Idle

(* In the beginning there is no tour and no file.                          *)
LEMMA ToursInitInv == ToursInit => ToursInv
BY ToursBounds DEF ToursInit, ToursInv, ToursTyped, ToursTypeOK, TourCalls, OneRow,
   Unsaved, Dropped, OneJudge,
   TourShown, Stored, Issued, SavingTour, Dropping, Judging, Found, Idle

(* Bunny finishes the encoding: the file becomes playable or is bad,       *)
(* whatever our rows say.                                                  *)
LEMMA EncodeInv ==
    ASSUME ToursInv, NEW f \in Files, NEW o \in {"playable", "bad"}, Encode(f, o)
    PROVE  ToursInv'
BY DEF Encode, ToursInv, ToursTyped, ToursTypeOK, TourCalls, OneRow, Unsaved, Dropped, OneJudge,
   TourShown, Stored, Issued, SavingTour, Dropping, Judging, Found, About, Playable

(* One request goes on, and the others stay where they are.               *)
LEMMA TourGoesTo ==
    ASSUME ToursInv, NEW r \in Requests, NEW c, TourGoes(r, c)
    PROVE  \A q \in Requests : tourCalls'[q] = IF q = r THEN c ELSE tourCalls[q]
BY DEF ToursInv, ToursTyped, TourGoes

(* A request that begins, or goes on without touching a table.             *)
LEMMA AskTourInv ==
    ASSUME ToursInv, NEW r \in Requests, NEW l \in Villas, NEW t \in {"create", "end"},
           AskTour(r, l, t)
    PROVE  ToursInv'
<1>1. PICK c : /\ c \in TourCalls /\ TourGoes(r, c)
               /\ c.at \in {"idle", "create", "drop"}
               /\ c.at = "drop" => \E m \in DOMAIN tours : c.file = tours[m].file
  <2>1. CASE l \in DOMAIN tours
    <3>1. PICK c : c = [at |-> "drop", villa |-> l, then |-> t, file |-> tours[l].file]
      OBVIOUS
    <3>2. c \in TourCalls
      BY <2>1, <3>1 DEF TourCalls, ToursInv, ToursTyped
    <3> QED
      BY <2>1, <3>1, <3>2 DEF AskTour
  <2>2. CASE l \notin DOMAIN tours
    <3>1. PICK c : c = After([villa |-> l, then |-> t])
      OBVIOUS
    <3>2. c = IF t = "create" THEN [at |-> "create", villa |-> l] ELSE Idle
      BY <3>1 DEF After
    <3>3. c \in TourCalls /\ c.at \in {"idle", "create"}
      BY <3>2 DEF TourCalls, Idle
    <3>4. TourGoes(r, c)
      BY <2>2, <3>1 DEF AskTour
    <3> QED
      BY <3>3, <3>4
  <2> QED
    BY <2>1, <2>2
<1>2. UNCHANGED <<tours, remote, leaked, crossed, issued>> /\ tourCalls[r] = Idle
  BY DEF AskTour
<1>3. ToursTyped'
  BY <1>1, <1>2 DEF ToursInv, ToursTyped, ToursTypeOK, TourCalls, Issued, TourGoes
<1>4. \A q \in Requests : tourCalls'[q] = IF q = r THEN c ELSE tourCalls[q]
  BY <1>1, TourGoesTo
<1>5. OneRow' /\ Unsaved'
  BY <1>1, <1>2, <1>4 DEF ToursInv, OneRow, Unsaved, SavingTour, About, Issued, Idle
<1>6. Dropped' /\ OneJudge'
  BY <1>1, <1>2, <1>4 DEF ToursInv, Dropped, OneJudge, Dropping, Judging, Issued, Idle
<1>7. TourShown' /\ Stored'
  BY <1>1, <1>2, <1>4 DEF ToursInv, TourShown, Stored, Found, Playable, Dropping,
     SavingTour, Issued, Idle
<1> QED
  BY <1>3, <1>5, <1>6, <1>7 DEF ToursInv

(* The row goes first: no row has the file that is dropped after it.       *)
LEMMA DropRowInv ==
    ASSUME ToursInv, NEW r \in Requests, DropRow(r)
    PROVE  ToursInv'
<1>1. PICK f \in Issued : f = tourCalls[r].file
  BY TourCallType DEF DropRow, ToursInv
<1>2. PICK c : c = [tourCalls[r] EXCEPT !.at = "dropFile"]
  OBVIOUS
<1>3. c \in TourCalls /\ c.at = "dropFile" /\ c.file = f
  BY <1>1, <1>2 DEF DropRow, ToursInv, ToursTyped, TourCalls, Idle
<1>4. /\ UNCHANGED <<remote, leaked, crossed, issued>>
      /\ tourCalls[r].at = "drop" /\ TourGoes(r, c)
      /\ tours' = Without(tours, RowOf(f))
  BY <1>1, <1>2 DEF DropRow
<1>5. /\ DOMAIN tours' = {l \in DOMAIN tours : tours[l].file # f}
      /\ \A l \in DOMAIN tours' : tours'[l] = tours[l]
  BY <1>4 DEF Without, RowOf
<1>6. \A q \in Requests : tourCalls'[q] = IF q = r THEN c ELSE tourCalls[q]
  BY <1>4, TourGoesTo
<1>7. ToursTyped'
  BY <1>3, <1>4, <1>5 DEF ToursInv, ToursTyped, ToursTypeOK, TourCalls, Issued, TourGoes
<1>8. OneRow' /\ Unsaved'
  BY <1>1, <1>3, <1>4, <1>5, <1>6 DEF ToursInv, OneRow, Unsaved, SavingTour, About, Issued
<1>9. Dropped' /\ OneJudge'
  BY <1>1, <1>3, <1>4, <1>5, <1>6 DEF ToursInv, Dropped, OneJudge, Dropping, Judging, Issued
<1>10. TourShown'
  BY <1>1, <1>3, <1>4, <1>5, <1>6 DEF ToursInv, TourShown, Found, Playable, Issued
<1>11. Stored'
  <2> SUFFICES ASSUME NEW g \in DOMAIN remote \ leaked
               PROVE  \/ \E l \in DOMAIN tours' : tours'[l].file = g /\ tours'[l].status # "FAILED"
                      \/ \E q \in Requests : Dropping(q, g)' \/ SavingTour(q, g)'
    BY <1>4 DEF Stored
  <2>1. CASE g = f
    BY <2>1, <1>3, <1>6 DEF Dropping
  <2>2. CASE g # f
    BY <2>2, <1>3, <1>4, <1>5, <1>6 DEF ToursInv, Stored, Dropping, SavingTour
  <2> QED
    BY <2>1, <2>2
<1> QED
  BY <1>7, <1>8, <1>9, <1>10, <1>11 DEF ToursInv

(* The file goes, or Bunny keeps it for good.                              *)
LEMMA DropFileInv ==
    ASSUME ToursInv, NEW r \in Requests, DropFile(r)
    PROVE  ToursInv'
<1>1. PICK f \in Issued : f = tourCalls[r].file
  BY TourCallType DEF DropFile, ToursInv
<1>2. PICK c : c = After(tourCalls[r])
  OBVIOUS
<1>3. c \in TourCalls /\ c.at \in {"idle", "create"}
  BY <1>1, <1>2 DEF DropFile, ToursInv, ToursTyped, TourCalls, Idle, After
<1>4. /\ UNCHANGED <<tours, crossed, issued>>
      /\ tourCalls[r].at = "dropFile" /\ TourGoes(r, c)
      /\ \/ remote' = Without(remote, {f}) /\ UNCHANGED leaked
         \/ leaked' = leaked \cup {f} /\ UNCHANGED remote
  BY <1>1, <1>2 DEF DropFile
<1>5. /\ DOMAIN remote' \subseteq DOMAIN remote /\ leaked \subseteq leaked'
      /\ f \in DOMAIN remote' => f \in leaked'
      /\ \A g \in DOMAIN remote \ {f} : g \in DOMAIN remote' /\ remote'[g] = remote[g]
      /\ \A g \in DOMAIN remote' : remote'[g] = remote[g]
  BY <1>4 DEF Without
<1>6. \A q \in Requests : tourCalls'[q] = IF q = r THEN c ELSE tourCalls[q]
  BY <1>4, TourGoesTo
<1>7. ToursTyped'
  BY <1>3, <1>4, <1>5 DEF ToursInv, ToursTyped, ToursTypeOK, TourCalls, Issued, TourGoes
<1>8. Dropping(r, f) /\ About(r, f)
  BY <1>1, <1>4 DEF Dropping, About
<1>9. OneRow' /\ Unsaved'
  BY <1>1, <1>3, <1>4, <1>5, <1>6, <1>8 DEF ToursInv, OneRow, Unsaved, SavingTour, About, Issued
<1>10. Dropped' /\ OneJudge'
  BY <1>1, <1>3, <1>4, <1>5, <1>6 DEF ToursInv, Dropped, OneJudge, Dropping, Judging, Issued
<1>11. TourShown'
  <2>1. \A l \in DOMAIN tours : tours[l].file = f =>
          tours[l].status # "UPLOADING" /\ (f \notin crossed => tours[l].status = "FAILED")
    BY <1>8 DEF ToursInv, Dropped
  <2>2. ASSUME NEW q \in Requests, NEW g \in Issued \ crossed, Found(q, g)',
               NEW l \in DOMAIN tours, tours[l].file = g
        PROVE  Playable(g)'
    <3>1. Found(q, g) /\ Judging(q, g)
      BY <2>2, <1>3, <1>6 DEF Found, Judging
    <3>2. tours[l].status = "UPLOADING" /\ Playable(g)
      BY <2>2, <3>1 DEF ToursInv, OneJudge, TourShown
    <3> QED
      BY <2>1, <2>2, <3>2, <1>5 DEF Playable
  <2>3. ASSUME NEW l \in DOMAIN tours
        PROVE  /\ tours[l].status = "READY" /\ tours[l].file \notin crossed => Playable(tours[l].file)'
               /\ tours[l].status = "UPLOADING" => tours[l].file \in DOMAIN remote'
    BY <2>1, <2>3, <1>4, <1>5 DEF ToursInv, TourShown, Playable
  <2> QED
    BY <2>2, <2>3, <1>4 DEF TourShown, Playable, Issued
<1>12. Stored'
  BY <1>1, <1>3, <1>4, <1>5, <1>6 DEF ToursInv, Stored, Dropping, SavingTour
<1> QED
  BY <1>7, <1>9, <1>10, <1>11, <1>12 DEF ToursInv

(* Bunny gives a guid nobody has, or nothing.                              *)
LEMMA CreateRemoteInv ==
    ASSUME ToursInv, NEW r \in Requests, CreateRemote(r)
    PROVE  ToursInv'
<1>1. PICK n : n = issued + 1
  OBVIOUS
<1>2. /\ UNCHANGED <<tours, leaked, crossed>>
      /\ tourCalls[r].at = "create"
  BY DEF CreateRemote
<1>3. CASE TourGoes(r, Idle) /\ UNCHANGED <<remote, issued>>
  <2>1. \A q \in Requests : tourCalls'[q] = IF q = r THEN Idle ELSE tourCalls[q]
    BY <1>3, TourGoesTo
  <2>2. ToursTyped'
    BY <1>2, <1>3 DEF ToursInv, ToursTyped, ToursTypeOK, TourCalls, Issued, TourGoes
  <2>3. OneRow' /\ Unsaved' /\ Dropped' /\ OneJudge'
    BY <1>2, <1>3, <2>1 DEF ToursInv, OneRow, Unsaved, SavingTour, About, Issued, Idle,
       Dropped, OneJudge, Dropping, Judging
  <2>4. TourShown' /\ Stored'
    BY <1>2, <1>3, <2>1 DEF ToursInv, TourShown, Stored, Found, Playable, Dropping,
       SavingTour, Issued, Idle
  <2> QED
    BY <2>2, <2>3, <2>4 DEF ToursInv
<1>4. CASE /\ issued < MaxFiles /\ issued' = n /\ remote' = With(remote, n, "uploading")
           /\ TourGoes(r, [at |-> "save", villa |-> tourCalls[r].villa, file |-> n])
  <2>1. PICK c : c = [at |-> "save", villa |-> tourCalls[r].villa, file |-> n]
    OBVIOUS
  <2>2. \A q \in Requests : tourCalls'[q] = IF q = r THEN c ELSE tourCalls[q]
    BY <1>4, <2>1, TourGoesTo
  <2>3. issued \in Nat /\ n \in Issued' /\ Issued' = Issued \cup {n} /\ n \notin Issued
    BY <1>1, <1>4, ToursBounds DEF ToursInv, ToursTyped, Issued
  <2>4. /\ DOMAIN remote' = DOMAIN remote \cup {n} /\ remote'[n] = "uploading"
        /\ \A g \in DOMAIN remote : g # n /\ remote'[g] = remote[g]
    BY <1>4, <2>3 DEF With, ToursInv, ToursTyped, ToursTypeOK, Issued
  <2>5. \A l \in DOMAIN tours : tours[l].file # n
    BY <2>3 DEF ToursInv, ToursTyped
  <2>6. \A q \in Requests : tourCalls[q].at \in {"drop", "dropFile", "save", "ask", "verdict"}
                              => tourCalls[q].file # n
    BY <2>3, TourCallType DEF ToursInv
  <2>7. ToursTyped'
    <3>1. c \in TourCalls'
      BY <1>2, <2>1, <2>3, TourCallType DEF TourCalls, ToursInv
    <3>2. TourCalls \subseteq TourCalls'
      BY <2>3 DEF TourCalls
    <3>3. tourCalls' \in [Requests -> TourCalls']
      BY <1>4, <2>1, <3>1, <3>2 DEF TourGoes, ToursInv, ToursTyped
    <3>4. issued' \in 0 .. MaxFiles
      BY <1>1, <1>4, <2>3, ToursBounds
    <3>5. ToursTypeOK'
      BY <1>2, <2>3, <2>4 DEF ToursInv, ToursTyped, ToursTypeOK, Issued
    <3>6. \A l \in DOMAIN tours' : tours'[l].file \in Issued'
      BY <1>2, <2>3 DEF ToursInv, ToursTyped
    <3> QED
      BY <3>3, <3>4, <3>5, <3>6 DEF ToursTyped
  <2>8. OneRow' /\ Unsaved'
    BY <1>2, <2>1, <2>2, <2>3, <2>4, <2>5, <2>6 DEF ToursInv, OneRow, Unsaved, SavingTour, About
  <2>9. Dropped' /\ OneJudge'
    BY <1>2, <2>1, <2>2, <2>3, <2>5, <2>6 DEF ToursInv, Dropped, OneJudge, Dropping, Judging
  <2>10. TourShown' /\ Stored'
    BY <1>2, <2>1, <2>2, <2>3, <2>4, <2>5, <2>6 DEF ToursInv, TourShown, Stored, Found,
       Playable, Dropping, SavingTour
  <2> QED
    BY <2>7, <2>8, <2>9, <2>10 DEF ToursInv
<1> QED
  BY <1>1, <1>3, <1>4 DEF CreateRemote

(* The row of a file nobody else has, or none.                             *)
LEMMA SaveTourInv ==
    ASSUME ToursInv, NEW r \in Requests, SaveTour(r)
    PROVE  ToursInv'
<1>1. PICK f \in Issued, v \in Villas : f = tourCalls[r].file /\ v = tourCalls[r].villa
  BY TourCallType DEF SaveTour, ToursInv
<1>2. /\ UNCHANGED <<remote, crossed, issued>>
      /\ tourCalls[r].at = "save" /\ TourGoes(r, Idle)
      /\ IF v \in DOMAIN tours
         THEN leaked' = leaked \cup {f} /\ UNCHANGED tours
         ELSE /\ tours' = With(tours, v, [file |-> f, status |-> "UPLOADING"])
              /\ UNCHANGED leaked
  BY <1>1 DEF SaveTour
<1>3. \A q \in Requests : tourCalls'[q] = IF q = r THEN Idle ELSE tourCalls[q]
  BY <1>2, TourGoesTo
<1>4. /\ f \in DOMAIN remote
      /\ \A l \in DOMAIN tours : tours[l].file # f
      /\ \A q \in Requests \ {r} : ~About(q, f)
  BY <1>1, <1>2 DEF ToursInv, Unsaved, SavingTour
<1>5. tourCalls' \in [Requests -> TourCalls']
  BY <1>2 DEF TourGoes, ToursInv, ToursTyped, TourCalls, Issued
<1>6. CASE v \in DOMAIN tours
  <2>1. ToursTyped'
    BY <1>2, <1>5, <1>6 DEF ToursInv, ToursTyped, ToursTypeOK, Issued
  <2>2. OneRow' /\ Unsaved' /\ Dropped' /\ OneJudge'
    BY <1>2, <1>3, <1>6 DEF ToursInv, OneRow, Unsaved, SavingTour, About, Issued, Idle,
       Dropped, OneJudge, Dropping, Judging
  <2>3. TourShown' /\ Stored'
    BY <1>1, <1>2, <1>3, <1>6 DEF ToursInv, TourShown, Stored, Found, Playable, Dropping,
       SavingTour, Issued, Idle
  <2> QED
    BY <2>1, <2>2, <2>3 DEF ToursInv
<1>7. CASE v \notin DOMAIN tours
  <2>1. /\ DOMAIN tours' = DOMAIN tours \cup {v} /\ UNCHANGED leaked
        /\ tours'[v] = [file |-> f, status |-> "UPLOADING"]
        /\ \A l \in DOMAIN tours : l # v /\ tours'[l] = tours[l]
    BY <1>2, <1>7 DEF With
  <2>2. ToursTyped'
    <3>1. [file |-> f, status |-> "UPLOADING"]
            \in [file : Files, status : {"UPLOADING", "READY", "FAILED"}]
      BY <1>1, ToursBounds DEF ToursInv, ToursTyped, Issued, Files
    <3>2. ToursTypeOK'
      BY <1>2, <2>1, <3>1 DEF ToursInv, ToursTyped, ToursTypeOK
    <3> QED
      BY <1>1, <1>2, <1>5, <2>1, <3>2 DEF ToursInv, ToursTyped, Issued
  <2>3. OneRow' /\ Unsaved'
    BY <1>1, <1>2, <1>3, <1>4, <2>1 DEF ToursInv, OneRow, Unsaved, SavingTour, About,
       Issued, Idle
  <2>4. Dropped' /\ OneJudge'
    BY <1>1, <1>2, <1>3, <1>4, <2>1 DEF ToursInv, Dropped, OneJudge, Dropping, Judging,
       About, Issued, Idle
  <2>5. TourShown'
    BY <1>1, <1>2, <1>3, <1>4, <2>1 DEF ToursInv, TourShown, Found, Playable, About,
       Issued, Idle
  <2>6. Stored'
    <3> SUFFICES ASSUME NEW g \in DOMAIN remote \ leaked
                 PROVE  \/ \E l \in DOMAIN tours' : tours'[l].file = g /\ tours'[l].status # "FAILED"
                        \/ \E q \in Requests : Dropping(q, g)' \/ SavingTour(q, g)'
      BY <1>2, <2>1 DEF Stored
    <3>1. CASE g = f
      BY <3>1, <2>1
    <3>2. CASE g # f
      BY <3>2, <1>1, <1>2, <1>3, <2>1 DEF ToursInv, Stored, Dropping, SavingTour
    <3> QED
      BY <3>1, <3>2
  <2> QED
    BY <2>2, <2>3, <2>4, <2>5, <2>6 DEF ToursInv
<1> QED
  BY <1>6, <1>7

(* A file is judged while its row waits, and one that two judge at a time  *)
(* is crossed.                                                             *)
LEMMA JudgeInv ==
    ASSUME ToursInv, NEW r \in Requests, NEW f \in Files, NEW c,
           c \in {[at |-> "ask", file |-> f],
                  [at |-> "verdict", file |-> f, status |-> "FAILED"]},
           Judge(r, f, c)
    PROVE  ToursInv'
<1>1. /\ UNCHANGED <<tours, remote, leaked, issued>>
      /\ tourCalls[r] = Idle /\ TourGoes(r, c)
      /\ crossed \subseteq crossed'
      /\ f \notin crossed' => \A q \in Requests : ~Judging(q, f)
      /\ \A g \in Issued : g # f /\ g \in crossed' => g \in crossed
  BY DEF Judge, Judged, Judging
<1>2. PICK w \in DOMAIN tours : tours[w].file = f /\ tours[w].status = "UPLOADING"
  BY DEF Judge, Pending, RowOf
<1>3. f \in Issued /\ \A l \in DOMAIN tours : tours[l].file = f => l = w
  BY <1>2 DEF ToursInv, ToursTyped, OneRow
<1>4. \A q \in Requests : tourCalls'[q] = IF q = r THEN c ELSE tourCalls[q]
  BY <1>1, TourGoesTo
<1>5. ToursTyped'
  BY <1>1, <1>3 DEF ToursInv, ToursTyped, ToursTypeOK, TourCalls, Issued, TourGoes
<1>6. OneRow' /\ Unsaved'
  BY <1>1, <1>2, <1>4 DEF ToursInv, OneRow, Unsaved, SavingTour, About, Issued, Idle
<1>7. Dropped'
  BY <1>1, <1>4 DEF ToursInv, Dropped, Dropping, Issued
<1>8. OneJudge'
  BY <1>1, <1>2, <1>3, <1>4 DEF ToursInv, OneJudge, Judging, Issued
<1>9. TourShown' /\ Stored'
  BY <1>1, <1>4 DEF ToursInv, TourShown, Stored, Found, Playable, Dropping, SavingTour,
     Issued, Idle
<1> QED
  BY <1>5, <1>6, <1>7, <1>8, <1>9 DEF ToursInv

(* Bunny's answer.                                                         *)
LEMMA AskBunnyInv ==
    ASSUME ToursInv, NEW r \in Requests, Ask(r)
    PROVE  ToursInv'
<1>1. PICK f \in Issued : f = tourCalls[r].file
  BY TourCallType DEF Ask, ToursInv
<1>2. PICK c : /\ TourGoes(r, c)
               /\ \/ c = Idle
                  \/ c = [at |-> "verdict", file |-> f, status |-> "READY"] /\ Playable(f)
                  \/ c = [at |-> "verdict", file |-> f, status |-> "FAILED"]
  BY <1>1 DEF Ask, Playable
<1>3. UNCHANGED <<tours, remote, leaked, crossed, issued>> /\ tourCalls[r].at = "ask"
  BY DEF Ask
<1>4. \A q \in Requests : tourCalls'[q] = IF q = r THEN c ELSE tourCalls[q]
  BY <1>2, TourGoesTo
<1>5. ToursTyped'
  <2>1. c \in TourCalls
    BY <1>2 DEF TourCalls
  <2> QED
    BY <1>2, <1>3, <2>1 DEF ToursInv, ToursTyped, ToursTypeOK, TourCalls, Issued, TourGoes
<1>6. OneRow' /\ Unsaved'
  BY <1>1, <1>2, <1>3, <1>4 DEF ToursInv, OneRow, Unsaved, SavingTour, About, Issued, Idle
<1>7. Dropped'
  BY <1>2, <1>3, <1>4 DEF ToursInv, Dropped, Dropping, Issued, Idle
<1>8. OneJudge'
  BY <1>1, <1>2, <1>3, <1>4 DEF ToursInv, OneJudge, Judging, Issued, Idle
<1>9. TourShown'
  BY <1>1, <1>2, <1>3, <1>4 DEF ToursInv, TourShown, Found, Playable, Issued, Idle
<1>10. Stored'
  BY <1>2, <1>3, <1>4 DEF ToursInv, Stored, Dropping, SavingTour, Idle
<1> QED
  BY <1>5, <1>6, <1>7, <1>8, <1>9, <1>10 DEF ToursInv

(* The verdict is written by id.  Where nobody else judged the file, its   *)
(* row still waits, or is gone.                                            *)
LEMMA VerdictInv ==
    ASSUME ToursInv, NEW r \in Requests, Verdict(r)
    PROVE  ToursInv'
<1>1. PICK f \in Issued, s \in {"READY", "FAILED"} :
        f = tourCalls[r].file /\ s = tourCalls[r].status
  BY TourCallType DEF Verdict, ToursInv
<1>2. PICK c : c = IF s = "READY" THEN Idle
                   ELSE [at |-> "dropFile", villa |-> None, then |-> "end", file |-> f]
  OBVIOUS
<1>3. /\ UNCHANGED <<remote, leaked, crossed, issued>>
      /\ tourCalls[r].at = "verdict" /\ TourGoes(r, c)
      /\ tours' = [l \in DOMAIN tours |-> IF l \in RowOf(f)
                      THEN [tours[l] EXCEPT !.status = s] ELSE tours[l]]
  BY <1>1, <1>2 DEF Verdict
<1>4. /\ DOMAIN tours' = DOMAIN tours
      /\ \A l \in DOMAIN tours :
            /\ tours[l].file # f => tours'[l] = tours[l]
            /\ tours[l].file = f => tours'[l] = [file |-> f, status |-> s]
            /\ tours'[l].file = tours[l].file
  BY <1>3 DEF RowOf, ToursInv, ToursTyped, ToursTypeOK
<1>5. \A q \in Requests : tourCalls'[q] = IF q = r THEN c ELSE tourCalls[q]
  BY <1>3, TourGoesTo
<1>6. Judging(r, f) /\ (s = "READY" => Found(r, f)) /\ About(r, f)
  BY <1>1, <1>3 DEF Judging, Found, About
<1>7. ToursTyped'
  <2>1. c \in TourCalls
    BY <1>1, <1>2 DEF TourCalls
  <2>2. ToursTypeOK'
    BY <1>1, <1>3, <1>4 DEF ToursInv, ToursTyped, ToursTypeOK
  <2>3. \A l \in DOMAIN tours' : tours'[l].file \in Issued'
    BY <1>3, <1>4 DEF ToursInv, ToursTyped, Issued
  <2>4. tourCalls' \in [Requests -> TourCalls']
    BY <1>3, <2>1 DEF ToursInv, ToursTyped, TourCalls, Issued, TourGoes
  <2> QED
    BY <1>3, <2>2, <2>3, <2>4 DEF ToursInv, ToursTyped
<1>8. OneRow' /\ Unsaved'
  BY <1>1, <1>2, <1>3, <1>4, <1>5, <1>6 DEF ToursInv, OneRow, Unsaved, SavingTour, About,
     Issued, Idle
<1>9. ASSUME NEW q \in Requests, Dropping(q, f), s = "READY", f \notin crossed
      PROVE  \A l \in DOMAIN tours : tours[l].file # f
  BY <1>6, <1>9 DEF ToursInv, Dropped, OneJudge
<1>10. Dropped'
  <2> SUFFICES ASSUME NEW q \in Requests, NEW g \in Issued, Dropping(q, g)',
                      NEW l \in DOMAIN tours, tours'[l].file = g
               PROVE  /\ tours'[l].status # "UPLOADING"
                      /\ g \notin crossed => tours'[l].status = "FAILED"
    BY <1>3, <1>4 DEF Dropped, Issued
  <2>1. CASE g # f
    <3>1. tours[l].file = g /\ tours'[l] = tours[l] /\ Dropping(q, g)
      BY <2>1, <1>2, <1>4, <1>5 DEF Dropping, Idle
    <3> QED
      BY <3>1 DEF ToursInv, Dropped
  <2>2. CASE g = f /\ s = "FAILED"
    BY <2>2, <1>4
  <2>3. CASE g = f /\ s = "READY"
    <3>1. Dropping(q, f)
      BY <2>3, <1>2, <1>5 DEF Dropping, Idle
    <3> QED
      BY <2>3, <3>1, <1>4, <1>9
  <2> QED
    BY <1>1, <2>1, <2>2, <2>3
<1>11. OneJudge'
  <2> SUFFICES ASSUME NEW g \in Issued \ crossed, NEW q \in Requests, Judging(q, g)'
               PROVE  /\ \A p \in Requests \ {q} : ~Judging(p, g)'
                      /\ \A l \in DOMAIN tours : tours'[l].file = g => tours'[l].status = "UPLOADING"
    BY <1>3, <1>4 DEF OneJudge, Issued
  <2>1. Judging(q, g) /\ q # r
    BY <1>2, <1>5 DEF Judging, Idle
  <2>2. g # f
    BY <2>1, <1>6 DEF ToursInv, OneJudge
  <2>3. \A l \in DOMAIN tours : tours'[l].file = g => tours'[l] = tours[l]
    BY <2>2, <1>4
  <2>4. \A p \in Requests \ {q} : Judging(p, g)' => Judging(p, g)
    BY <1>2, <1>5 DEF Judging, Idle
  <2> QED
    BY <2>1, <2>3, <2>4 DEF ToursInv, OneJudge
<1>12. TourShown'
  <2>1. ASSUME NEW l \in DOMAIN tours, NEW g, g = tours[l].file
        PROVE  /\ tours'[l].status = "READY" /\ g \notin crossed => Playable(g)
               /\ tours'[l].status = "UPLOADING" => g \in DOMAIN remote
    BY <2>1, <1>1, <1>4, <1>6 DEF ToursInv, TourShown
  <2>2. ASSUME NEW q \in Requests, NEW g \in Issued \ crossed, Found(q, g)',
               NEW l \in DOMAIN tours, tours'[l].file = g
        PROVE  Playable(g)
    BY <2>2, <1>2, <1>4, <1>5 DEF ToursInv, TourShown, Found, Idle
  <2> QED
    BY <1>3, <1>4, <2>1, <2>2 DEF TourShown, Playable, Issued
<1>13. Stored'
  <2> SUFFICES ASSUME NEW g \in DOMAIN remote \ leaked
               PROVE  \/ \E l \in DOMAIN tours : tours'[l].file = g /\ tours'[l].status # "FAILED"
                      \/ \E q \in Requests : Dropping(q, g)' \/ SavingTour(q, g)'
    BY <1>3, <1>4 DEF Stored
  <2>1. CASE \E q \in Requests : Dropping(q, g) \/ SavingTour(q, g)
    BY <2>1, <1>3, <1>5 DEF Dropping, SavingTour
  <2>2. CASE \E l \in DOMAIN tours : tours[l].file = g /\ tours[l].status # "FAILED"
    BY <2>2, <1>1, <1>2, <1>4, <1>5 DEF Dropping
  <2> QED
    BY <2>1, <2>2 DEF ToursInv, Stored
<1> QED
  BY <1>7, <1>8, <1>10, <1>11, <1>12, <1>13 DEF ToursInv

(* A stop leaves behind what was being dropped or saved.                   *)
LEMMA TourRestartInv ==
    ASSUME ToursInv, TourRestart
    PROVE  ToursInv'
<1>1. /\ UNCHANGED <<tours, remote, crossed, issued>>
      /\ leaked' = leaked \cup Unfinished
      /\ tourCalls' = [r \in Requests |-> Idle]
  BY DEF TourRestart
<1>2. ToursTyped'
  BY <1>1 DEF ToursInv, ToursTyped, ToursTypeOK, TourCalls, Issued
<1>3. OneRow' /\ Unsaved' /\ Dropped' /\ OneJudge' /\ TourShown'
  BY <1>1 DEF ToursInv, OneRow, Unsaved, Dropped, OneJudge, TourShown, SavingTour, Dropping,
     Judging, Found, Playable, Idle, Issued
<1>4. Stored'
  BY <1>1 DEF ToursInv, Stored, Unfinished, Dropping, SavingTour
<1> QED
  BY <1>2, <1>3, <1>4 DEF ToursInv

(* Every step of the tours keeps the invariant.                            *)
LEMMA ToursNextInv == ToursInv /\ [ToursNext]_tourVars => ToursInv'
<1> SUFFICES ASSUME ToursInv, [ToursNext]_tourVars PROVE ToursInv'
  OBVIOUS
<1>1. ASSUME NEW f \in Files,
             \/ \E o \in {"playable", "bad"} : Encode(f, o)
             \/ \E r \in Requests : Finalize(r, f) \/ Abandon(r, f)
      PROVE  ToursInv'
  BY <1>1, EncodeInv, JudgeInv DEF Finalize, Abandon
<1>2. ASSUME NEW r \in Requests,
             \/ \E l \in Villas, t \in {"create", "end"} : AskTour(r, l, t)
             \/ DropRow(r) \/ DropFile(r) \/ CreateRemote(r) \/ SaveTour(r)
             \/ Ask(r) \/ Verdict(r)
      PROVE  ToursInv'
  BY <1>2, AskTourInv, DropRowInv, DropFileInv, CreateRemoteInv, SaveTourInv, AskBunnyInv,
     VerdictInv
<1>3. CASE UNCHANGED tourVars
  BY <1>3 DEF tourVars, ToursInv, ToursTyped, ToursTypeOK, OneRow, Unsaved, Dropped, OneJudge,
     TourShown, Stored, Issued, SavingTour, Dropping, Judging, Found, Playable, About, TourCalls
<1> QED
  BY <1>1, <1>2, <1>3, TourRestartInv DEF ToursNext

(* A tour that is shown plays and no file of Bunny's is forgotten, but     *)
(* where two verdicts crossed or a delete failed, for any listings and     *)
(* requests (listing-videos.service.ts:52-275).                            *)
THEOREM ToursAreKept == ToursSpec => [](TourPlays /\ ToursTypeOK)
<1>1. ToursInv => TourPlays /\ ToursTypeOK
  BY DEF ToursInv, ToursTyped, TourPlays, TourShown, Stored, Playable, RowOf, Quiet, Dropping,
     SavingTour, Idle
<1> QED
  BY ToursInitInv, ToursNextInv, <1>1, PTL DEF ToursSpec

(***************************************************************************)
(* Avatars and pictures (Gallery)                                          *)
(***************************************************************************)
PicCalls ==
    {Idle}
    \cup [at : {"avatar"}, new : Pictures \cup {None}, old : Pictures \cup {None}]
    \cup [at : {"delete"}, keep : SUBSET Pictures, existing : SUBSET Pictures]
    \cup [at : {"insert"}, keep : SUBSET Pictures, existing : SUBSET Pictures,
          sees : SUBSET Pictures]

GalleryTyped ==
    /\ GalleryTypeOK
    /\ uploaded \in 0 .. MaxPictures
    /\ orphaned \subseteq SUBSET Pictures
    /\ loose \subseteq Pictures /\ givenUp \subseteq Pictures
    /\ picCalls \in [Requests -> PicCalls]

(* What request q has in hand of picture p. *)
Sets(q, p) == picCalls[q].at = "avatar" /\ picCalls[q].new = p
Displaces(q, p) == picCalls[q].at = "avatar" /\ picCalls[q].old = p
Keeps(q, p) == picCalls[q].at \in {"delete", "insert"} /\ p \in picCalls[q].keep
Knows(q, p) ==
    /\ picCalls[q].at \in {"delete", "insert"}
    /\ \/ p \in picCalls[q].keep \/ p \in picCalls[q].existing
       \/ picCalls[q].at = "insert" /\ p \in picCalls[q].sees

(* Picture p is no part of the gallery and was never given up. *)
NoPart(p) ==
    /\ p \notin gallery /\ p \notin loose /\ p \notin givenUp
    /\ \A q \in Requests : ~Knows(q, p)

(* What was not uploaded yet is nowhere. *)
Unknown == \A p \in Pictures : p > uploaded =>
    /\ NoPart(p) /\ avatar # p /\ bunny[p] = {}
    /\ \A q \in Requests : ~Sets(q, p) /\ ~Displaces(q, p)

GivenUps ==
    /\ UNION orphaned \subseteq givenUp
    /\ revived \subseteq givenUp
    /\ givenUp \cap Shown \subseteq revived

Whole == \A p \in Pictures \ givenUp :
    \/ p \in Shown \cup loose
    \/ \E q \in Requests : Sets(q, p) \/ Keeps(q, p)
    => bunny[p] = Renditions

Portraits ==
    /\ \A p \in Pictures : avatar = p => NoPart(p)
    /\ \A r \in Requests, p \in Pictures :
          /\ Sets(r, p) =>
                /\ NoPart(p) /\ avatar # p
                /\ \A q \in Requests : ~Displaces(q, p) /\ (Sets(q, p) => q = r)
          /\ Displaces(r, p) =>
                /\ p \notin loose
                /\ p \in gallery => p \in revived
                /\ \A q \in Requests : Keeps(q, p) => p \in givenUp

Somewhere == \A p \in Pictures : bunny[p] # {} =>
    \/ p \in Shown \cup loose \cup (UNION orphaned) \cup lost \cup revived
    \/ \E q \in Requests : Sets(q, p)

GalleryInv == GalleryTyped /\ Unknown /\ GivenUps /\ Whole /\ Portraits /\ Somewhere

-----------------------------------------------------------------------------
(* What a request about pictures holds at each of its awaits.              *)
LEMMA PicCallType ==
    ASSUME GalleryTyped, NEW r \in Requests
    PROVE  /\ picCalls[r].at = "avatar" =>
                picCalls[r].new \in Pictures \cup {None} /\ picCalls[r].old \in Pictures \cup {None}
           /\ picCalls[r].at \in {"delete", "insert"} =>
                picCalls[r].keep \subseteq Pictures /\ picCalls[r].existing \subseteq Pictures
           /\ picCalls[r].at = "insert" => picCalls[r].sees \subseteq Pictures
BY DEF GalleryTyped, PicCalls, Idle

(* A request moves on and the others stay where they are.                  *)
LEMMA PicGoesTo ==
    ASSUME GalleryTyped, NEW r \in Requests, NEW c \in PicCalls, PicGoes(r, c)
    PROVE  /\ picCalls' \in [Requests -> PicCalls]
           /\ \A q \in Requests : picCalls'[q] = IF q = r THEN c ELSE picCalls[q]
BY DEF GalleryTyped, PicGoes

(* The mark for no picture is none of the pictures.                        *)
LEMMA NoneIsNoPicture == None \notin Pictures /\ Pictures \subseteq Nat
BY GalleryBounds DEF Pictures

(* In the beginning nothing is stored or shown.                            *)
LEMMA GalleryInitInv == GalleryInit => GalleryInv
<1> SUFFICES ASSUME GalleryInit PROVE GalleryInv
  OBVIOUS
<1>1. GalleryTyped
  BY GalleryBounds DEF GalleryInit, GalleryTyped, GalleryTypeOK, PicCalls, Pictures
<1>2. Unknown /\ Portraits
  BY NoneIsNoPicture DEF GalleryInit, Unknown, Portraits, NoPart, Knows, Sets, Displaces,
     Keeps, Idle
<1>3. GivenUps /\ Whole /\ Somewhere
  BY NoneIsNoPicture DEF GalleryInit, GivenUps, Whole, Somewhere, Shown, Sets, Keeps, Idle
<1> QED
  BY <1>1, <1>2, <1>3 DEF GalleryInv

(* The next picture that is uploaded is in nobody's hands.                 *)
LEMMA NextIsUnknown ==
    ASSUME GalleryInv, uploaded < MaxPictures, NEW n, n = uploaded + 1
    PROVE  /\ n \in Pictures /\ n # None /\ n \in 0 .. MaxPictures /\ uploaded \in Nat
           /\ NoPart(n) /\ avatar # n /\ bunny[n] = {}
           /\ \A q \in Requests : ~Sets(q, n) /\ ~Displaces(q, n) /\ ~Keeps(q, n)
           /\ \A p \in Pictures : p > n => p > uploaded /\ p # n
<1>1. uploaded \in Nat /\ n \in Pictures /\ n > uploaded
  BY GalleryBounds DEF GalleryInv, GalleryTyped, Pictures
<1>2. NoPart(n) /\ avatar # n /\ bunny[n] = {}
      /\ \A q \in Requests : ~Sets(q, n) /\ ~Displaces(q, n)
  BY <1>1 DEF GalleryInv, Unknown
<1>3. \A q \in Requests : ~Keeps(q, n)
  BY <1>2 DEF NoPart, Keeps, Knows
<1> QED
  BY <1>1, <1>2, <1>3, NoneIsNoPicture, GalleryBounds DEF Pictures

(* An upload: the picture is loose, or what was stored of it is lost.      *)
LEMMA UploadInv ==
    ASSUME GalleryInv, NEW s \in SUBSET Renditions, Upload(s)
    PROVE  GalleryInv'
<1>1. PICK n : n = uploaded + 1
  OBVIOUS
<1>2. /\ n \in Pictures /\ n # None /\ n \in 0 .. MaxPictures /\ uploaded \in Nat
      /\ NoPart(n) /\ avatar # n /\ bunny[n] = {}
      /\ \A q \in Requests : ~Sets(q, n) /\ ~Displaces(q, n) /\ ~Keeps(q, n)
      /\ \A p \in Pictures : p > n => p > uploaded /\ p # n
  BY <1>1, NextIsUnknown DEF Upload
<1>3. /\ UNCHANGED <<avatar, gallery, orphaned, picCalls, givenUp, revived>>
      /\ uploaded' = n /\ bunny' = [bunny EXCEPT ![n] = s]
      /\ IF s = Renditions
         THEN loose' = loose \cup {n} /\ UNCHANGED lost
         ELSE lost' = lost \cup {n} /\ UNCHANGED loose
  BY <1>1 DEF Upload
<1>4. \A p \in Pictures : bunny'[p] = IF p = n THEN s ELSE bunny[p]
  BY <1>2, <1>3 DEF GalleryInv, GalleryTyped, GalleryTypeOK
<1>5. GalleryTyped'
  BY <1>2, <1>3 DEF GalleryInv, GalleryTyped, GalleryTypeOK
<1>6. Unknown'
  BY <1>2, <1>3, <1>4 DEF GalleryInv, Unknown, NoPart, Knows, Sets, Displaces
<1>7. GivenUps'
  BY <1>3 DEF GalleryInv, GivenUps, Shown
<1>8. Whole'
  BY <1>2, <1>3, <1>4 DEF GalleryInv, Whole, Shown, Sets, Keeps, NoPart
<1>9. Portraits'
  BY <1>2, <1>3, <1>4 DEF GalleryInv, Portraits, NoPart, Knows, Sets, Displaces, Keeps
<1>10. Somewhere'
  BY <1>2, <1>3, <1>4 DEF GalleryInv, Somewhere, Shown, Sets
<1> QED
  BY <1>5, <1>6, <1>7, <1>8, <1>9, <1>10 DEF GalleryInv

(* A change of the avatar begins with the avatar there is; the picture it  *)
(* sets is nobody else's.                                                  *)
LEMMA AskAvatarInv ==
    ASSUME GalleryInv, NEW r \in Requests, AskAvatar(r)
    PROVE  GalleryInv'
<1>1. PICK n : n = uploaded + 1
  OBVIOUS
<1>2. /\ n \in Pictures /\ n # None /\ n \in 0 .. MaxPictures /\ uploaded \in Nat
      /\ NoPart(n) /\ avatar # n /\ bunny[n] = {}
      /\ \A q \in Requests : ~Sets(q, n) /\ ~Displaces(q, n) /\ ~Keeps(q, n)
      /\ \A p \in Pictures : p > n => p > uploaded /\ p # n
  BY <1>1, NextIsUnknown DEF AskAvatar
<1>3. PICK c : c = [at |-> "avatar", new |-> n, old |-> avatar]
  OBVIOUS
<1>4. /\ UNCHANGED <<avatar, gallery, loose, lost, orphaned, givenUp, revived>>
      /\ uploaded' = n /\ bunny' = [bunny EXCEPT ![n] = Renditions]
      /\ picCalls[r] = Idle /\ PicGoes(r, c)
  BY <1>1, <1>3 DEF AskAvatar, Asks
<1>5. \A p \in Pictures : bunny'[p] = IF p = n THEN Renditions ELSE bunny[p]
  BY <1>2, <1>4 DEF GalleryInv, GalleryTyped, GalleryTypeOK
<1>6. c \in PicCalls
  BY <1>2, <1>3 DEF PicCalls, GalleryInv, GalleryTyped, GalleryTypeOK
<1>7. /\ picCalls' \in [Requests -> PicCalls]
      /\ \A q \in Requests : picCalls'[q] = IF q = r THEN c ELSE picCalls[q]
  BY <1>4, <1>6, PicGoesTo DEF GalleryInv
<1>8. \A p \in Pictures : NoPart(p)' <=> NoPart(p)
  BY <1>3, <1>4, <1>7 DEF NoPart, Knows, Idle
<1>9. \A q \in Requests, p \in Pictures :
        /\ Sets(q, p)' <=> Sets(q, p) \/ (q = r /\ p = n)
        /\ Displaces(q, p)' <=> Displaces(q, p) \/ (q = r /\ p = avatar)
        /\ Keeps(q, p)' <=> Keeps(q, p)
  BY <1>3, <1>4, <1>7 DEF Sets, Displaces, Keeps, Idle
<1>10. GalleryTyped'
  BY <1>2, <1>4, <1>7 DEF GalleryInv, GalleryTyped, GalleryTypeOK
<1>11. Unknown'
  BY <1>2, <1>4, <1>5, <1>8, <1>9 DEF GalleryInv, Unknown
<1>12. GivenUps'
  BY <1>4 DEF GalleryInv, GivenUps, Shown
<1>13. Whole'
  BY <1>2, <1>4, <1>5, <1>9 DEF GalleryInv, Whole, Shown
<1>14. Portraits'
  <2>1. \A p \in Pictures : avatar = p => NoPart(p) /\ NoPart(p)'
    BY <1>8 DEF GalleryInv, Portraits
  <2>2. \A p \in Pictures : avatar' = p => NoPart(p)'
    BY <2>1, <1>4
  <2>3. ASSUME NEW q \in Requests, NEW p \in Pictures, Sets(q, p)'
        PROVE  /\ NoPart(p)' /\ avatar' # p
               /\ \A x \in Requests : ~Displaces(x, p)' /\ (Sets(x, p)' => x = q)
    BY <2>3, <1>2, <1>4, <1>8, <1>9 DEF GalleryInv, Portraits
  <2>4. ASSUME NEW q \in Requests, NEW p \in Pictures, Displaces(q, p)'
        PROVE  /\ p \notin loose /\ (p \in gallery => p \in revived)
               /\ \A x \in Requests : Keeps(x, p)' => p \in givenUp
    <3>1. CASE Displaces(q, p)
      BY <3>1, <1>9 DEF GalleryInv, Portraits
    <3>2. CASE p = avatar
      BY <3>2, <2>1, <1>9 DEF NoPart, Keeps, Knows
    <3> QED
      BY <2>4, <1>9, <3>1, <3>2
  <2> QED
    BY <1>4, <2>2, <2>3, <2>4 DEF Portraits
<1>15. Somewhere'
  BY <1>2, <1>4, <1>5, <1>9 DEF GalleryInv, Somewhere, Shown
<1> QED
  BY <1>10, <1>11, <1>12, <1>13, <1>14, <1>15 DEF GalleryInv

(* A request to remove the avatar reads the one to give up.                *)
LEMMA AskNoAvatarInv ==
    ASSUME GalleryInv, NEW r \in Requests, AskNoAvatar(r)
    PROVE  GalleryInv'
<1>1. PICK c : c = [at |-> "avatar", new |-> None, old |-> avatar]
  OBVIOUS
<1>2. /\ UNCHANGED <<bunny, uploaded, avatar, gallery, loose, lost, orphaned, givenUp, revived>>
      /\ picCalls[r] = Idle /\ PicGoes(r, c)
  BY <1>1 DEF AskNoAvatar, Asks
<1>3. c \in PicCalls
  BY <1>1 DEF PicCalls, GalleryInv, GalleryTyped, GalleryTypeOK
<1>4. /\ picCalls' \in [Requests -> PicCalls]
      /\ \A q \in Requests : picCalls'[q] = IF q = r THEN c ELSE picCalls[q]
  BY <1>2, <1>3, PicGoesTo DEF GalleryInv
<1>5. \A p \in Pictures : NoPart(p)' <=> NoPart(p)
  BY <1>1, <1>2, <1>4 DEF NoPart, Knows, Idle
<1>6. \A q \in Requests, p \in Pictures :
        /\ Sets(q, p)' <=> Sets(q, p)
        /\ Displaces(q, p)' <=> Displaces(q, p) \/ (q = r /\ p = avatar)
        /\ Keeps(q, p)' <=> Keeps(q, p)
  BY <1>1, <1>2, <1>4, NoneIsNoPicture DEF Sets, Displaces, Keeps, Idle
<1>7. GalleryTyped'
  BY <1>2, <1>4 DEF GalleryInv, GalleryTyped, GalleryTypeOK
<1>8. Unknown' /\ GivenUps'
  BY <1>2, <1>5, <1>6 DEF GalleryInv, Unknown, GivenUps, Shown
<1>9. Whole' /\ Somewhere'
  BY <1>2, <1>6 DEF GalleryInv, Whole, Somewhere, Shown
<1>10. Portraits'
  <2>1. \A p \in Pictures : avatar = p => NoPart(p) /\ NoPart(p)'
    BY <1>5 DEF GalleryInv, Portraits
  <2>2. \A p \in Pictures : avatar' = p => NoPart(p)'
    BY <2>1, <1>2
  <2>3. ASSUME NEW q \in Requests, NEW p \in Pictures, Sets(q, p)'
        PROVE  /\ NoPart(p)' /\ avatar' # p
               /\ \A x \in Requests : ~Displaces(x, p)' /\ (Sets(x, p)' => x = q)
    BY <2>3, <1>2, <1>5, <1>6 DEF GalleryInv, Portraits
  <2>4. ASSUME NEW q \in Requests, NEW p \in Pictures, Displaces(q, p)'
        PROVE  /\ p \notin loose /\ (p \in gallery => p \in revived)
               /\ \A x \in Requests : Keeps(x, p)' => p \in givenUp
    <3>1. CASE Displaces(q, p)
      BY <3>1, <1>6 DEF GalleryInv, Portraits
    <3>2. CASE p = avatar
      BY <3>2, <2>1, <1>6 DEF NoPart, Keeps, Knows
    <3> QED
      BY <2>4, <1>6, <3>1, <3>2
  <2> QED
    BY <1>2, <2>2, <2>3, <2>4 DEF Portraits
<1> QED
  BY <1>7, <1>8, <1>9, <1>10 DEF GalleryInv

(* The new picture is the avatar, and the one the request knew is given up. *)
LEMMA SwapAvatarInv ==
    ASSUME GalleryInv, NEW r \in Requests, SwapAvatar(r)
    PROVE  GalleryInv'
<1>1. PICK new \in Pictures \cup {None}, old \in Pictures \cup {None} :
        new = picCalls[r].new /\ old = picCalls[r].old
  BY PicCallType DEF SwapAvatar, GalleryInv
<1>2. /\ UNCHANGED <<bunny, uploaded, loose, gallery, revived>>
      /\ picCalls[r].at = "avatar" /\ PicGoes(r, Idle)
      /\ avatar' = new /\ givenUp' = givenUp \cup ({old} \ {None})
      /\ lost' = lost \cup ({avatar} \ {None, old})
      /\ orphaned' = IF {old} \ {None} = {} THEN orphaned ELSE orphaned \cup {{old} \ {None}}
  BY <1>1 DEF SwapAvatar, Publish
<1>3. /\ picCalls' \in [Requests -> PicCalls]
      /\ \A q \in Requests : picCalls'[q] = IF q = r THEN Idle ELSE picCalls[q]
  BY <1>2, PicGoesTo DEF GalleryInv, PicCalls
<1>4. \A q \in Requests, p \in Pictures :
        /\ Sets(q, p)' <=> Sets(q, p) /\ q # r
        /\ Displaces(q, p)' <=> Displaces(q, p) /\ q # r
        /\ Keeps(q, p)' <=> Keeps(q, p)
        /\ Knows(q, p)' <=> Knows(q, p)
  BY <1>2, <1>3 DEF Sets, Displaces, Keeps, Knows, Idle
<1>5. /\ new \in Pictures => Sets(r, new) /\ new # None
      /\ old \in Pictures => Displaces(r, old) /\ old # None
  BY <1>1, <1>2, NoneIsNoPicture DEF Sets, Displaces
<1>6. new \in Pictures =>
        /\ NoPart(new) /\ avatar # new /\ new # old
        /\ \A q \in Requests : ~Displaces(q, new) /\ (Sets(q, new) => q = r)
  BY <1>5 DEF GalleryInv, Portraits
<1>7. old \in Pictures =>
        /\ old \notin loose /\ (old \in gallery => old \in revived)
        /\ \A q \in Requests : Keeps(q, old) => old \in givenUp
  BY <1>5 DEF GalleryInv, Portraits
<1>8. \A p \in Pictures : p # old => (NoPart(p)' <=> NoPart(p))
  BY <1>2, <1>4 DEF NoPart
<1>9. GalleryTyped'
  BY <1>1, <1>2, <1>3 DEF GalleryInv, GalleryTyped, GalleryTypeOK
<1>10. Unknown'
  BY <1>2, <1>4, <1>5, <1>8 DEF GalleryInv, Unknown
<1>11. GivenUps'
  <2>1. UNION orphaned' \subseteq givenUp'
    BY <1>2 DEF GalleryInv, GivenUps
  <2>2. Shown' \subseteq gallery \cup {new} /\ None \notin Shown'
    BY <1>2, NoneIsNoPicture DEF Shown, GalleryInv, GalleryTyped, GalleryTypeOK
  <2>3. ASSUME NEW p \in Shown', p \in givenUp' PROVE p \in revived
    <3>1. CASE p \in gallery
      BY <3>1, <2>2, <2>3, <1>1, <1>2, <1>7 DEF GalleryInv, GivenUps, Shown
    <3>2. CASE p = new
      BY <3>2, <2>2, <2>3, <1>1, <1>2, <1>6 DEF NoPart
    <3> QED
      BY <2>2, <2>3, <3>1, <3>2
  <2> QED
    BY <1>2, <2>1, <2>3 DEF GalleryInv, GivenUps
<1>12. Whole'
  <2> SUFFICES ASSUME NEW p \in Pictures, p \notin givenUp',
                      p \in Shown' \cup loose \/ \E q \in Requests : Sets(q, p)' \/ Keeps(q, p)'
               PROVE  bunny[p] = Renditions
    BY <1>2 DEF Whole
  <2>1. p \in Shown \cup loose \/ \E q \in Requests : Sets(q, p) \/ Keeps(q, p)
    BY <1>2, <1>4, <1>5 DEF Shown
  <2> QED
    BY <2>1, <1>2 DEF GalleryInv, Whole
<1>13. Portraits'
  <2>1. ASSUME NEW p \in Pictures, avatar' = p PROVE NoPart(p)'
    BY <2>1, <1>2, <1>6, <1>8
  <2>2. ASSUME NEW q \in Requests, NEW p \in Pictures, Sets(q, p)'
        PROVE  /\ NoPart(p)' /\ avatar' # p
               /\ \A x \in Requests : ~Displaces(x, p)' /\ (Sets(x, p)' => x = q)
    <3>1. Sets(q, p) /\ q # r
      BY <2>2, <1>4
    <3>2. p # new /\ p # old /\ NoPart(p)
      BY <3>1, <1>5, <1>6 DEF GalleryInv, Portraits
    <3> QED
      BY <3>1, <3>2, <1>2, <1>4, <1>8 DEF GalleryInv, Portraits
  <2>3. ASSUME NEW q \in Requests, NEW p \in Pictures, Displaces(q, p)'
        PROVE  /\ p \notin loose /\ (p \in gallery => p \in revived)
               /\ \A x \in Requests : Keeps(x, p)' => p \in givenUp'
    BY <2>3, <1>2, <1>4 DEF GalleryInv, Portraits
  <2> QED
    BY <1>2, <2>1, <2>2, <2>3 DEF Portraits
<1>14. Somewhere'
  <2> SUFFICES ASSUME NEW p \in Pictures, bunny[p] # {}
               PROVE  \/ p \in Shown' \cup loose \cup (UNION orphaned') \cup lost' \cup revived
                      \/ \E q \in Requests : Sets(q, p)'
    BY <1>2 DEF Somewhere
  <2>1. UNION orphaned \subseteq UNION orphaned' /\ (old = p => p \in UNION orphaned')
    BY <1>2, NoneIsNoPicture
  <2>2. p # None
    BY NoneIsNoPicture
  <2>3. CASE p \in Shown
    BY <2>1, <2>2, <2>3, <1>2 DEF Shown
  <2>4. CASE \E q \in Requests : Sets(q, p)
    <3>1. CASE Sets(r, p)
      BY <3>1, <2>2, <1>1, <1>2 DEF Sets, Shown
    <3> QED
      BY <2>4, <3>1, <1>4
  <2> QED
    BY <2>1, <2>3, <2>4, <1>2 DEF GalleryInv, Somewhere
<1> QED
  BY <1>9, <1>10, <1>11, <1>12, <1>13, <1>14 DEF GalleryInv

(* An edit of the gallery keeps pictures that are loose, in it or given up. *)
LEMMA AskImagesInv ==
    ASSUME GalleryInv, NEW r \in Requests, NEW ps \in SUBSET Pictures, AskImages(r, ps)
    PROVE  GalleryInv'
<1>1. PICK c : c = [at |-> "delete", keep |-> ps, existing |-> gallery]
  OBVIOUS
<1>2. /\ UNCHANGED <<bunny, uploaded, avatar, gallery, loose, lost, orphaned, givenUp, revived>>
      /\ picCalls[r] = Idle /\ PicGoes(r, c)
      /\ ps \subseteq loose \cup gallery \cup givenUp
  BY <1>1 DEF AskImages, Asks
<1>3. c \in PicCalls
  BY <1>1 DEF PicCalls, GalleryInv, GalleryTyped, GalleryTypeOK
<1>4. /\ picCalls' \in [Requests -> PicCalls]
      /\ \A q \in Requests : picCalls'[q] = IF q = r THEN c ELSE picCalls[q]
  BY <1>2, <1>3, PicGoesTo DEF GalleryInv
<1>5. \A q \in Requests, p \in Pictures :
        /\ Sets(q, p)' <=> Sets(q, p)
        /\ Displaces(q, p)' <=> Displaces(q, p)
        /\ Keeps(q, p)' <=> Keeps(q, p) \/ (q = r /\ p \in ps)
        /\ Knows(q, p)' <=> Knows(q, p) \/ (q = r /\ p \in ps \cup gallery)
  BY <1>1, <1>2, <1>4 DEF Sets, Displaces, Keeps, Knows, Idle
<1>6. \A p \in Pictures : NoPart(p)' <=> NoPart(p)
  BY <1>2, <1>5 DEF NoPart
<1>7. GalleryTyped'
  BY <1>2, <1>4 DEF GalleryInv, GalleryTyped, GalleryTypeOK
<1>8. Unknown' /\ GivenUps'
  BY <1>2, <1>5, <1>6 DEF GalleryInv, Unknown, GivenUps, Shown
<1>9. Whole'
  <2> SUFFICES ASSUME NEW p \in Pictures \ givenUp,
                      p \in Shown \cup loose \/ \E q \in Requests : Sets(q, p)' \/ Keeps(q, p)'
               PROVE  bunny[p] = Renditions
    BY <1>2 DEF Whole, Shown
  <2>1. p \in Shown \cup loose \/ \E q \in Requests : Sets(q, p) \/ Keeps(q, p)
    BY <1>2, <1>5 DEF Shown
  <2> QED
    BY <2>1 DEF GalleryInv, Whole
<1>10. Somewhere'
  BY <1>2, <1>5 DEF GalleryInv, Somewhere, Shown
<1>11. Portraits'
  <2>1. ASSUME NEW q \in Requests, NEW p \in Pictures, Displaces(q, p)
        PROVE  /\ p \notin loose /\ (p \in gallery => p \in revived)
               /\ \A x \in Requests : Keeps(x, p)' => p \in givenUp
    <3>1. /\ p \notin loose /\ (p \in gallery => p \in revived)
          /\ \A x \in Requests : Keeps(x, p) => p \in givenUp
      BY <2>1 DEF GalleryInv, Portraits
    <3>2. p \in ps => p \in givenUp
      BY <3>1, <1>2 DEF GalleryInv, GivenUps
    <3> QED
      BY <3>1, <3>2, <1>5
  <2> QED
    BY <2>1, <1>2, <1>5, <1>6 DEF GalleryInv, Portraits
<1> QED
  BY <1>7, <1>8, <1>9, <1>10, <1>11 DEF GalleryInv

(* The rows of the pictures that are not kept are deleted, before the new  *)
(* ones are inserted.                                                      *)
LEMMA DeleteRowsInv ==
    ASSUME GalleryInv, NEW r \in Requests, DeleteRows(r)
    PROVE  GalleryInv'
<1>1. PICK keep \in SUBSET Pictures, existing \in SUBSET Pictures :
        keep = picCalls[r].keep /\ existing = picCalls[r].existing
  BY PicCallType DEF DeleteRows, GalleryInv
<1>2. PICK c : c = [at |-> "insert", keep |-> keep, existing |-> existing, sees |-> gallery]
  OBVIOUS
<1>3. /\ UNCHANGED <<bunny, uploaded, avatar, gallery, loose, lost, orphaned, givenUp, revived>>
      /\ picCalls[r].at = "delete" /\ PicGoes(r, c)
  BY <1>1, <1>2 DEF DeleteRows
<1>4. c \in PicCalls
  BY <1>1, <1>2 DEF PicCalls, GalleryInv, GalleryTyped, GalleryTypeOK
<1>5. /\ picCalls' \in [Requests -> PicCalls]
      /\ \A q \in Requests : picCalls'[q] = IF q = r THEN c ELSE picCalls[q]
  BY <1>3, <1>4, PicGoesTo DEF GalleryInv
<1>6. \A q \in Requests, p \in Pictures :
        /\ Sets(q, p)' <=> Sets(q, p)
        /\ Displaces(q, p)' <=> Displaces(q, p)
        /\ Keeps(q, p)' <=> Keeps(q, p)
        /\ Knows(q, p)' <=> Knows(q, p) \/ (q = r /\ p \in gallery)
  BY <1>1, <1>2, <1>3, <1>5 DEF Sets, Displaces, Keeps, Knows
<1>7. \A p \in Pictures : NoPart(p)' <=> NoPart(p)
  BY <1>3, <1>6 DEF NoPart
<1>8. GalleryTyped'
  BY <1>3, <1>5 DEF GalleryInv, GalleryTyped, GalleryTypeOK
<1>9. Unknown' /\ GivenUps'
  BY <1>3, <1>6, <1>7 DEF GalleryInv, Unknown, GivenUps, Shown
<1>10. Whole' /\ Somewhere'
  BY <1>3, <1>6 DEF GalleryInv, Whole, Somewhere, Shown
<1>11. Portraits'
  BY <1>3, <1>6, <1>7 DEF GalleryInv, Portraits
<1> QED
  BY <1>8, <1>9, <1>10, <1>11 DEF GalleryInv

(* The rows that are there: what the edit keeps, and what another inserted *)
(* while it waited.                                                        *)
LEMMA CommitImagesInv ==
    ASSUME GalleryInv, NEW r \in Requests, CommitImages(r)
    PROVE  GalleryInv'
<1>1. PICK keep \in SUBSET Pictures, existing \in SUBSET Pictures, sees \in SUBSET Pictures :
        keep = picCalls[r].keep /\ existing = picCalls[r].existing /\ sees = picCalls[r].sees
  BY PicCallType DEF CommitImages, GalleryInv
<1>2. PICK out \in SUBSET Pictures : out = existing \ keep
  OBVIOUS
<1>3. PICK present \in SUBSET Pictures : present = (gallery \ sees) \cup keep
  BY DEF GalleryInv, GalleryTyped, GalleryTypeOK
<1>4. /\ UNCHANGED <<bunny, uploaded, avatar>>
      /\ picCalls[r].at = "insert" /\ PicGoes(r, Idle)
      /\ gallery' = present /\ loose' = loose \ keep
      /\ orphaned' = IF out = {} THEN orphaned ELSE orphaned \cup {out}
      /\ givenUp' = givenUp \cup out
      /\ lost' = lost \cup (sees \ (existing \cup keep))
      /\ revived' = revived \cup (keep \cap givenUp) \cup (present \cap out)
  BY <1>1, <1>2, <1>3 DEF CommitImages, Publish, Removed
<1>5. /\ picCalls' \in [Requests -> PicCalls]
      /\ \A q \in Requests : picCalls'[q] = IF q = r THEN Idle ELSE picCalls[q]
  BY <1>4, PicGoesTo DEF GalleryInv, PicCalls
<1>6. \A q \in Requests, p \in Pictures :
        /\ Sets(q, p)' <=> Sets(q, p)
        /\ Displaces(q, p)' <=> Displaces(q, p)
        /\ Keeps(q, p)' <=> Keeps(q, p) /\ q # r
        /\ Knows(q, p)' <=> Knows(q, p) /\ q # r
  BY <1>4, <1>5 DEF Sets, Displaces, Keeps, Knows, Idle
<1>7. \A p \in Pictures : /\ p \in keep => Keeps(r, p)
                          /\ p \in keep \cup existing \cup sees => Knows(r, p)
  BY <1>1, <1>4 DEF Keeps, Knows
<1>8. \A p \in Pictures : NoPart(p) =>
        NoPart(p)' /\ p \notin keep /\ p \notin existing /\ p \notin sees
  BY <1>2, <1>3, <1>4, <1>6, <1>7 DEF NoPart
<1>9. GalleryTyped'
  BY <1>2, <1>4, <1>5 DEF GalleryInv, GalleryTyped, GalleryTypeOK
<1>10. Unknown'
  BY <1>4, <1>6, <1>8 DEF GalleryInv, Unknown
<1>11. \A p \in Pictures : avatar = p => NoPart(p)
  BY DEF GalleryInv, Portraits
<1>12. GivenUps'
  <2>1. UNION orphaned' \subseteq givenUp' /\ revived' \subseteq givenUp'
    BY <1>4 DEF GalleryInv, GivenUps
  <2>2. ASSUME NEW p \in Pictures, p \in Shown', p \in givenUp' PROVE p \in revived'
    <3>1. CASE p = avatar
      BY <3>1, <2>2, <1>2, <1>4, <1>8, <1>11 DEF NoPart
    <3>2. CASE p \in present
      BY <3>2, <2>2, <1>3, <1>4 DEF GalleryInv, GivenUps, Shown
    <3> QED
      BY <2>2, <3>1, <3>2, <1>4 DEF Shown
  <2>3. Shown' \subseteq Pictures
    BY <1>9 DEF GalleryTyped, GalleryTypeOK, Shown
  <2> QED
    BY <2>1, <2>2, <2>3 DEF GivenUps
<1>13. Whole'
  <2> SUFFICES ASSUME NEW p \in Pictures, p \notin givenUp',
                      p \in Shown' \cup loose' \/ \E q \in Requests : Sets(q, p)' \/ Keeps(q, p)'
               PROVE  bunny[p] = Renditions
    BY <1>4 DEF Whole
  <2>1. p \in Shown \cup loose \/ \E q \in Requests : Sets(q, p) \/ Keeps(q, p)
    BY <1>3, <1>4, <1>6, <1>7 DEF Shown
  <2> QED
    BY <2>1, <1>4 DEF GalleryInv, Whole
<1>14. Portraits'
  <2>1. ASSUME NEW q \in Requests, NEW p \in Pictures, Displaces(q, p)
        PROVE  /\ p \notin loose' /\ (p \in present => p \in revived')
               /\ \A x \in Requests : Keeps(x, p)' => p \in givenUp'
    <3>1. /\ p \notin loose /\ (p \in gallery => p \in revived)
          /\ \A x \in Requests : Keeps(x, p) => p \in givenUp
      BY <2>1 DEF GalleryInv, Portraits
    <3> QED
      BY <3>1, <1>3, <1>4, <1>6, <1>7
  <2> QED
    BY <2>1, <1>4, <1>6, <1>8, <1>11 DEF GalleryInv, Portraits
<1>15. Somewhere'
  <2> SUFFICES ASSUME NEW p \in Pictures, bunny[p] # {}
               PROVE  \/ p \in Shown' \cup loose' \cup (UNION orphaned') \cup lost' \cup revived'
                      \/ \E q \in Requests : Sets(q, p)'
    BY <1>4 DEF Somewhere
  <2>1. /\ UNION orphaned \subseteq UNION orphaned'
        /\ p \in out => p \in UNION orphaned'
    BY <1>4
  <2>2. CASE p \in Shown \cup loose
    BY <2>1, <2>2, <1>2, <1>3, <1>4 DEF Shown
  <2> QED
    BY <2>1, <2>2, <1>4, <1>6 DEF GalleryInv, Somewhere
<1> QED
  BY <1>9, <1>10, <1>12, <1>13, <1>14, <1>15 DEF GalleryInv

(* Only what was given up is deleted.                                      *)
LEMMA DeleteFilesInv ==
    ASSUME GalleryInv, NEW event \in orphaned, NEW refused \in SUBSET event,
           DeleteFiles(event, refused)
    PROVE  GalleryInv'
<1>1. /\ UNCHANGED <<uploaded, loose, avatar, gallery, picCalls, givenUp, revived>>
      /\ orphaned' = orphaned \ {event} /\ lost' = lost \cup refused
      /\ bunny' = [p \in Pictures |-> IF p \in event \ refused THEN {} ELSE bunny[p]]
  BY DEF DeleteFiles
<1>2. event \subseteq givenUp
  BY DEF GalleryInv, GivenUps
<1>3. GalleryTyped'
  BY <1>1 DEF GalleryInv, GalleryTyped, GalleryTypeOK
<1>4. Unknown' /\ GivenUps'
  BY <1>1 DEF GalleryInv, Unknown, GivenUps, Shown, NoPart, Knows, Sets, Displaces
<1>5. Whole'
  BY <1>1, <1>2 DEF GalleryInv, Whole, Shown, Sets, Keeps
<1>6. Portraits'
  BY <1>1 DEF GalleryInv, Portraits, NoPart, Knows, Sets, Displaces, Keeps
<1>7. Somewhere'
  <2> SUFFICES ASSUME NEW p \in Pictures, bunny'[p] # {}
               PROVE  \/ p \in Shown \cup loose \cup (UNION orphaned') \cup lost' \cup revived
                      \/ \E q \in Requests : Sets(q, p)
    BY <1>1 DEF Somewhere, Shown, Sets
  <2>1. bunny[p] # {} /\ p \notin event \ refused
    BY <1>1
  <2>2. p \in UNION orphaned => p \in event \/ p \in UNION orphaned'
    BY <1>1
  <2> QED
    BY <2>1, <2>2, <1>1 DEF GalleryInv, Somewhere
<1> QED
  BY <1>3, <1>4, <1>5, <1>6, <1>7 DEF GalleryInv

(* A restart loses the requests, and what they had uploaded and not        *)
(* attached.                                                               *)
LEMMA GalleryRestartInv ==
    ASSUME GalleryInv, GalleryRestart
    PROVE  GalleryInv'
<1>1. /\ UNCHANGED <<bunny, uploaded, loose, avatar, gallery, orphaned, givenUp, revived>>
      /\ lost' = lost \cup (Attaching \ {None})
      /\ picCalls' = [r \in Requests |-> Idle]
  BY DEF GalleryRestart
<1>2. \A q \in Requests, p \in Pictures :
        ~Sets(q, p)' /\ ~Displaces(q, p)' /\ ~Keeps(q, p)' /\ ~Knows(q, p)'
  BY <1>1 DEF Sets, Displaces, Keeps, Knows, Idle
<1>3. \A p \in Pictures : NoPart(p) => NoPart(p)'
  BY <1>1, <1>2 DEF NoPart
<1>4. GalleryTyped'
  BY <1>1 DEF GalleryInv, GalleryTyped, GalleryTypeOK, PicCalls
<1>5. Unknown' /\ GivenUps'
  BY <1>1, <1>2, <1>3 DEF GalleryInv, Unknown, GivenUps, Shown
<1>6. Whole' /\ Portraits'
  BY <1>1, <1>2, <1>3 DEF GalleryInv, Whole, Portraits, Shown
<1>7. Somewhere'
  <2>1. \A p \in Pictures, q \in Requests : Sets(q, p) => p \in lost'
    BY <1>1, NoneIsNoPicture DEF Attaching, Sets
  <2> QED
    BY <2>1, <1>1 DEF GalleryInv, Somewhere, Shown
<1> QED
  BY <1>4, <1>5, <1>6, <1>7 DEF GalleryInv

(* Every step of the pictures keeps the invariant.                         *)
LEMMA GalleryNextInv == GalleryInv /\ [GalleryNext]_galleryVars => GalleryInv'
<1> SUFFICES ASSUME GalleryInv, [GalleryNext]_galleryVars PROVE GalleryInv'
  OBVIOUS
<1>1. ASSUME NEW r \in Requests,
             \/ AskAvatar(r) \/ AskNoAvatar(r)
             \/ \E ps \in SUBSET Pictures : AskImages(r, ps)
             \/ SwapAvatar(r) \/ DeleteRows(r) \/ CommitImages(r)
      PROVE  GalleryInv'
  BY <1>1, AskAvatarInv, AskNoAvatarInv, AskImagesInv, SwapAvatarInv, DeleteRowsInv,
     CommitImagesInv
<1>2. CASE UNCHANGED galleryVars
  BY <1>2 DEF galleryVars, GalleryInv, GalleryTyped, GalleryTypeOK, Unknown, GivenUps, Whole,
     Portraits, Somewhere, Shown, NoPart, Knows, Sets, Displaces, Keeps
<1> QED
  BY <1>1, <1>2, UploadInv, DeleteFilesInv, GalleryRestartInv DEF GalleryNext

(* Nothing shown is broken and nothing stored is forgotten, but what two   *)
(* changes that overlap or a refused delete lose, for any number of        *)
(* pictures, changes and requests (users.service.ts:111-136,               *)
(* listings.service.ts:530-566, delete-listing-image.listener.ts:25-42).   *)
THEOREM FilesAreKept == GallerySpec => [](FilesAreAccountedFor /\ GalleryTypeOK)
<1>1. GalleryInv => FilesAreAccountedFor /\ GalleryTypeOK
  <2> SUFFICES ASSUME GalleryInv PROVE FilesAreAccountedFor
    BY DEF GalleryInv, GalleryTyped
  <2>1. \A p \in Shown \ revived : bunny[p] = Renditions
    <3>1. Shown \subseteq Pictures
      BY DEF GalleryInv, GalleryTyped, GalleryTypeOK, Shown
    <3> QED
      BY <3>1 DEF GalleryInv, GivenUps, Whole
  <2>2. \A p \in Pictures : (\E q \in Requests : Sets(q, p)) => p \in Attaching
    BY DEF Sets, Attaching
  <2> QED
    BY <2>1, <2>2 DEF GalleryInv, Somewhere, FilesAreAccountedFor
<1> QED
  BY GalleryInitInv, GalleryNextInv, <1>1, PTL DEF GallerySpec

(***************************************************************************)
(* What people do to a reel (Reels)                                        *)
(***************************************************************************)
Numbers == [likes : Nat, views : Nat, comments : Int]

ReelCalls ==
    {Idle}
    \cup [at : {"like"}, clip : Clips, user : Users, liked : BOOLEAN]
    \cup [at : {"sendLikes"}, clip : Clips, n : Nat]
    \cup [at : {"readViews"}, batch : SUBSET Clips]
    \cup [at : {"write"}, clip : Clips, user : Users, parent : Nat \cup {None}]
    \cup [at : {"sendCount"}, clip : Clips]
    \cup [at : {"countReplies"}, comment : Nat, clip : Clips, parent : Nat \cup {None}]
    \cup [at : {"remove"}, comment : Nat, clip : Clips, parent : Nat \cup {None}, n : Nat]
    \cup [at : {"heart"}, comment : Nat, user : Users, liked : BOOLEAN]

ReelsTyped ==
    /\ ReelsTypeOK
    /\ counters \in [Clips -> Numbers]
    /\ shown \in [Clips -> Numbers]
    /\ clipCalls \in [Requests -> ReelCalls]
    /\ \A k \in DOMAIN clipThread :
          clipThread[k] \in [clip : Clips, author : Users, parent : Nat \cup {None},
                             likes : Int, replies : Int]
    /\ night # None =>
          night \in [DOMAIN night -> [counted : Numbers, had : Numbers]]

(* A thread has two levels, within one reel. *)
Rooted == \A k \in DOMAIN clipThread : clipThread[k].parent # None =>
    /\ clipThread[k].parent \in DOMAIN clipThread
    /\ clipThread[clipThread[k].parent].parent = None
    /\ clipThread[clipThread[k].parent].clip = clipThread[k].clip

(* What the requests remember of a comment is what it says, if it stands. *)
Remembers == \A r \in Requests :
    /\ clipCalls[r].at = "write" /\ clipCalls[r].parent # None =>
          /\ clipCalls[r].parent \in 1 .. clipWritten
          /\ clipCalls[r].parent \in DOMAIN clipThread =>
                /\ clipThread[clipCalls[r].parent].parent = None
                /\ clipThread[clipCalls[r].parent].clip = clipCalls[r].clip
    /\ clipCalls[r].at \in {"countReplies", "remove"} =>
          /\ clipCalls[r].comment \in 1 .. clipWritten
          /\ clipCalls[r].comment \in DOMAIN clipThread =>
                /\ clipThread[clipCalls[r].comment].parent = clipCalls[r].parent
                /\ clipThread[clipCalls[r].comment].clip = clipCalls[r].clip

(* Likes and views agree with their rows until the nightly job raced. *)
LikesAgree == \A v \in Clips :
    /\ IsFiniteSet(OfClip(clipLikes, v))
    /\ ~nightRaced => counters[v].likes = Cardinality(OfClip(clipLikes, v))
ViewsAgree == \A v \in Clips :
    /\ IsFiniteSet(OfClip(clipViews, v))
    /\ ~nightRaced => counters[v].views = Cardinality(OfClip(clipViews, v))

(* What the job is about to store of them is what it found. *)
NightFair == night # None /\ ~nightRaced => \A v \in DOMAIN night :
    /\ night[v].counted.likes = night[v].had.likes
    /\ night[v].counted.views = night[v].had.views

(* Until two requests have overlapped. *)
OneAtATime ==
    /\ night = None /\ ~nightRaced
    /\ \A r, q \in Requests : clipCalls[r] # Idle /\ clipCalls[q] # Idle => r = q
CommentsAgree == \A v \in Clips : counters[v].comments = Cardinality(CommentsOf(v))
RemovesRight == \A r \in Requests :
    /\ clipCalls[r].at \in {"countReplies", "remove"} => clipCalls[r].comment \in DOMAIN clipThread
    /\ clipCalls[r].at = "remove" =>
          clipCalls[r].n = IF clipCalls[r].parent = None
                           THEN Cardinality(Answers(clipCalls[r].comment)) ELSE 0
Watched ==
    /\ \A r \in Requests : clipCalls[r].at = "sendLikes" =>
          clipCalls[r].n = counters[clipCalls[r].clip].likes
    /\ \A v \in Clips :
          /\ shown[v].likes = counters[v].likes
                \/ \E r \in Requests : clipCalls[r].at = "sendLikes" /\ clipCalls[r].clip = v
          /\ shown[v].views = counters[v].views
                \/ \E r \in Requests : clipCalls[r].at = "readViews" /\ v \in clipCalls[r].batch
          /\ shown[v].comments = counters[v].comments
                \/ \E r \in Requests : clipCalls[r].at = "sendCount" /\ clipCalls[r].clip = v
LoneReels == ~clipMixed => OneAtATime /\ CommentsAgree /\ RemovesRight /\ Watched

ReelsInv == ReelsTyped /\ Rooted /\ Remembers /\ LikesAgree /\ ViewsAgree /\ NightFair /\ LoneReels

-----------------------------------------------------------------------------
(* What a request about a reel holds at each of its awaits.                *)
LEMMA ReelCallType ==
    ASSUME ReelsTyped, NEW r \in Requests
    PROVE  /\ clipCalls[r].at \in {"like", "sendLikes", "write", "sendCount", "countReplies", "remove"}
                => clipCalls[r].clip \in Clips
           /\ clipCalls[r].at \in {"like", "write", "heart"} => clipCalls[r].user \in Users
           /\ clipCalls[r].at \in {"like", "heart"} => clipCalls[r].liked \in BOOLEAN
           /\ clipCalls[r].at \in {"sendLikes", "remove"} => clipCalls[r].n \in Nat
           /\ clipCalls[r].at = "readViews" => clipCalls[r].batch \subseteq Clips
           /\ clipCalls[r].at \in {"write", "countReplies", "remove"} =>
                clipCalls[r].parent \in Nat \cup {None}
           /\ clipCalls[r].at \in {"countReplies", "remove", "heart"} => clipCalls[r].comment \in Nat
BY DEF ReelsTyped, ReelCalls, Idle

(* A request moves on and the others stay where they are.                  *)
LEMMA ReelGoesTo ==
    ASSUME ReelsTyped, NEW r \in Requests, NEW c \in ReelCalls, Continues(r, c)
    PROVE  /\ clipCalls' \in [Requests -> ReelCalls]
           /\ \A q \in Requests : clipCalls'[q] = IF q = r THEN c ELSE clipCalls[q]
BY DEF ReelsTyped, Continues

(* A row that is inserted adds one to the count.                           *)
LEMMA OneRowMore ==
    ASSUME NEW S, IsFiniteSet(S), NEW x, x \notin S
    PROVE  /\ IsFiniteSet(S \cup {x}) /\ Cardinality(S) \in Nat
           /\ Cardinality(S \cup {x}) = Cardinality(S) + 1
BY FS_AddElement, FS_CardinalityType

(* A row that is deleted takes one from the count.                         *)
LEMMA OneRowLess ==
    ASSUME NEW S, IsFiniteSet(S), NEW x \in S
    PROVE  /\ IsFiniteSet(S \ {x}) /\ Cardinality(S) \in Nat /\ Cardinality(S) > 0
           /\ Cardinality(S \ {x}) = Cardinality(S) - 1
<1>1. /\ IsFiniteSet(S \ {x}) /\ Cardinality(S) \in Nat
      /\ Cardinality(S \ {x}) = Cardinality(S) - 1
  BY FS_RemoveElement, FS_CardinalityType
<1>2. Cardinality(S \ {x}) \in Nat
  BY <1>1, FS_CardinalityType
<1> QED
  BY <1>1, <1>2

(* The comments ever written are finitely many, so they can be counted.    *)
LEMMA ThreadIsFinite ==
    ASSUME ReelsTyped
    PROVE  /\ clipWritten \in Nat /\ IsFiniteSet(DOMAIN clipThread)
           /\ \A k \in DOMAIN clipThread : k \in Nat /\ k # None /\ k <= clipWritten
           /\ \A v : IsFiniteSet(CommentsOf(v)) /\ CommentsOf(v) \subseteq DOMAIN clipThread
           /\ \A c : IsFiniteSet(Answers(c)) /\ Answers(c) \subseteq DOMAIN clipThread
<1>1. clipWritten \in Nat /\ DOMAIN clipThread \subseteq 1 .. clipWritten
  BY ReelsBounds DEF ReelsTyped, ReelsTypeOK
<1>2. IsFiniteSet(DOMAIN clipThread)
  <2>1. IsFiniteSet(1 .. clipWritten)
    BY <1>1, FS_Interval
  <2> QED
    BY <1>1, <2>1, FS_Subset
<1>3. \A v : CommentsOf(v) \subseteq DOMAIN clipThread
  BY DEF CommentsOf
<1>4. \A c : Answers(c) \subseteq DOMAIN clipThread
  BY DEF Answers
<1>5. \A v : IsFiniteSet(CommentsOf(v))
  BY <1>2, <1>3, FS_Subset
<1>6. \A c : IsFiniteSet(Answers(c))
  BY <1>2, <1>4, FS_Subset
<1> QED
  BY <1>1, <1>2, <1>3, <1>4, <1>5, <1>6, ReelsBounds

(* In the beginning no reel has a row or a number.                         *)
LEMMA ReelsInitInv == ReelsInit => ReelsInv
<1> SUFFICES ASSUME ReelsInit PROVE ReelsInv
  OBVIOUS
<1>0. Stats(0, 0, 0) \in Numbers /\ Stats(0, 0, 0).likes = 0 /\ Stats(0, 0, 0).views = 0
      /\ Stats(0, 0, 0).comments = 0
  BY DEF Stats, Numbers
<1>1. ReelsTyped
  BY <1>0, ReelsBounds DEF ReelsInit, ReelsTyped, ReelsTypeOK, ReelCalls, Numbers
<1>2. \A v \in Clips : OfClip(clipLikes, v) = {} /\ OfClip(clipViews, v) = {} /\ CommentsOf(v) = {}
  BY DEF ReelsInit, OfClip, CommentsOf
<1>3. LikesAgree /\ ViewsAgree /\ CommentsAgree
  BY <1>0, <1>2, FS_EmptySet DEF ReelsInit, LikesAgree, ViewsAgree, CommentsAgree
<1>4. Rooted /\ Remembers /\ NightFair /\ OneAtATime /\ RemovesRight /\ Watched
  BY DEF ReelsInit, Rooted, Remembers, NightFair, OneAtATime, RemovesRight, Watched, Idle
<1> QED
  BY <1>1, <1>3, <1>4 DEF ReelsInv, LoneReels

(* A request comes in, with what it has found of the comment it is about.  *)
LEMMA EntersInv ==
    ASSUME ReelsInv, NEW r \in Requests, NEW c \in ReelCalls, Enters(r, c),
           c.at \in {"like", "write", "countReplies", "heart"},
           c.at = "write" /\ c.parent # None =>
              /\ c.parent \in DOMAIN clipThread
              /\ clipThread[c.parent].parent = None /\ clipThread[c.parent].clip = c.clip,
           c.at = "countReplies" =>
              /\ c.comment \in DOMAIN clipThread
              /\ clipThread[c.comment].parent = c.parent /\ clipThread[c.comment].clip = c.clip
    PROVE  ReelsInv'
<1>1. /\ UNCHANGED <<clipLikes, clipViews, clipThread, clipWritten, clipHearts,
                     counters, shown, night, nightRaced>>
      /\ clipCalls[r] = Idle /\ Continues(r, c)
      /\ ~clipMixed' => ~clipMixed /\ \A q \in Requests : q # r => clipCalls[q] = Idle
  BY DEF Enters, rows, Alone
<1>2. /\ clipCalls' \in [Requests -> ReelCalls]
      /\ \A q \in Requests : clipCalls'[q] = IF q = r THEN c ELSE clipCalls[q]
  BY <1>1, ReelGoesTo DEF ReelsInv
<1>3. ReelsTyped'
  BY <1>1, <1>2 DEF ReelsInv, ReelsTyped, ReelsTypeOK
<1>4. Rooted' /\ LikesAgree' /\ ViewsAgree' /\ NightFair'
  BY <1>1 DEF ReelsInv, Rooted, LikesAgree, ViewsAgree, NightFair, OfClip
<1>5. Remembers'
  BY <1>1, <1>2 DEF ReelsInv, ReelsTyped, ReelsTypeOK, Remembers
<1>6. LoneReels'
  <2> SUFFICES ASSUME ~clipMixed' PROVE (OneAtATime /\ CommentsAgree /\ RemovesRight /\ Watched)'
    BY DEF LoneReels
  <2>1. OneAtATime /\ CommentsAgree /\ RemovesRight /\ Watched
    BY <1>1 DEF ReelsInv, LoneReels
  <2>2. OneAtATime'
    BY <2>1, <1>1, <1>2 DEF OneAtATime
  <2>3. CommentsAgree'
    BY <2>1, <1>1 DEF CommentsAgree, CommentsOf
  <2>4. RemovesRight'
    BY <2>1, <1>1, <1>2 DEF RemovesRight, Answers
  <2>5. Watched'
    BY <2>1, <1>1, <1>2 DEF Watched, Idle
  <2> QED
    BY <2>2, <2>3, <2>4, <2>5
<1> QED
  BY <1>3, <1>4, <1>5, <1>6 DEF ReelsInv

(* A request about a reel starts by reading, and changes no row.           *)
LEMMA AsksInv ==
    ASSUME ReelsInv, NEW r \in Requests,
           \/ \E v \in Clips, u \in Users, liked \in BOOLEAN : AskLike(r, v, u, liked)
           \/ \E v \in Clips, u \in Users, p \in DOMAIN clipThread \cup {None} :
                AskReply(r, v, u, p)
           \/ \E c \in DOMAIN clipThread, u \in Users : AskRemoval(r, c, u)
           \/ \E c \in DOMAIN clipThread, u \in Users, liked \in BOOLEAN :
                AskReplyHeart(r, c, u, liked)
    PROVE  ReelsInv'
<1>0. /\ \A k \in DOMAIN clipThread : k \in Nat /\ k # None
      /\ \A k \in DOMAIN clipThread :
          clipThread[k] \in [clip : Clips, author : Users, parent : Nat \cup {None},
                             likes : Int, replies : Int]
  BY ThreadIsFinite DEF ReelsInv, ReelsTyped
<1>1. ASSUME NEW v \in Clips, NEW u \in Users, NEW liked \in BOOLEAN, AskLike(r, v, u, liked)
      PROVE  ReelsInv'
  <2>1. PICK c : c = [at |-> "like", clip |-> v, user |-> u, liked |-> liked]
    OBVIOUS
  <2>2. c \in ReelCalls /\ c.at = "like" /\ Enters(r, c)
    BY <1>1, <2>1 DEF ReelCalls, AskLike
  <2> QED
    BY <2>2, EntersInv
<1>2. ASSUME NEW v \in Clips, NEW u \in Users, NEW p \in DOMAIN clipThread \cup {None},
             AskReply(r, v, u, p)
      PROVE  ReelsInv'
  <2>1. PICK c : c = [at |-> "write", clip |-> v, user |-> u, parent |-> p]
    OBVIOUS
  <2>2. c \in ReelCalls /\ c.at = "write" /\ Enters(r, c) /\ c.parent = p /\ c.clip = v
    BY <1>0, <1>2, <2>1 DEF ReelCalls, AskReply
  <2>3. p # None => clipThread[p].parent = None /\ clipThread[p].clip = v /\ p \in DOMAIN clipThread
    BY <1>2 DEF AskReply, CommentsOf
  <2> QED
    BY <2>2, <2>3, EntersInv
<1>3. ASSUME NEW k \in DOMAIN clipThread, NEW u \in Users, AskRemoval(r, k, u)
      PROVE  ReelsInv'
  <2>1. PICK c : c = [at |-> "countReplies", comment |-> k,
                      clip |-> clipThread[k].clip, parent |-> clipThread[k].parent]
    OBVIOUS
  <2>2. c \in ReelCalls
    BY <1>0, <2>1 DEF ReelCalls
  <2>3. c.at = "countReplies" /\ Enters(r, c) /\ c.comment = k
        /\ c.parent = clipThread[k].parent /\ c.clip = clipThread[k].clip
    BY <1>3, <2>1 DEF AskRemoval
  <2> QED
    BY <2>2, <2>3, EntersInv
<1>4. ASSUME NEW k \in DOMAIN clipThread, NEW u \in Users, NEW liked \in BOOLEAN,
             AskReplyHeart(r, k, u, liked)
      PROVE  ReelsInv'
  <2>1. PICK c : c = [at |-> "heart", comment |-> k, user |-> u, liked |-> liked]
    OBVIOUS
  <2>2. c \in ReelCalls /\ c.at = "heart" /\ Enters(r, c)
    BY <1>0, <1>4, <2>1 DEF ReelCalls, AskReplyHeart
  <2> QED
    BY <2>2, EntersInv
<1> QED
  BY <1>1, <1>2, <1>3, <1>4

(* A step of a request that goes on to c: until requests overlap it is the *)
(* only one.                                                               *)
LEMMA GoesOnAlone ==
    ASSUME ReelsInv, NEW r \in Requests, clipCalls[r] # Idle, NEW c \in ReelCalls,
           Continues(r, c), ClipGhosts, ~clipMixed'
    PROVE  /\ OneAtATime' /\ CommentsAgree /\ RemovesRight /\ Watched
           /\ \A q \in Requests : q # r => clipCalls[q] = Idle /\ clipCalls'[q] = Idle
<1>1. /\ ~clipMixed /\ UNCHANGED <<night, nightRaced>>
      /\ \A q \in Requests : clipCalls'[q] = IF q = r THEN c ELSE clipCalls[q]
  BY ReelGoesTo DEF ClipGhosts, ReelsInv
<1>2. OneAtATime /\ CommentsAgree /\ RemovesRight /\ Watched
  BY <1>1 DEF ReelsInv, LoneReels
<1>3. \A q \in Requests : q # r => clipCalls[q] = Idle
  BY <1>2 DEF OneAtATime
<1> QED
  BY <1>1, <1>2, <1>3 DEF OneAtATime

(* A like moves the number by the row it writes.                           *)
LEMMA LikeClipInv ==
    ASSUME ReelsInv, NEW r \in Requests, LikeClip(r)
    PROVE  ReelsInv'
<1>1. PICK v \in Clips, u \in Users, liked \in BOOLEAN :
        v = clipCalls[r].clip /\ u = clipCalls[r].user /\ liked = clipCalls[r].liked
  BY ReelCallType DEF LikeClip, ReelsInv
<1>2. PICK row : row = <<v, u>>
  OBVIOUS
<1>3. PICK n \in Nat : n = counters[v].likes
  BY DEF ReelsInv, ReelsTyped, Numbers
<1>4. PICK moved \in Nat :
        moved = IF liked THEN (IF row \in clipLikes THEN n ELSE n + 1)
                ELSE IF row \in clipLikes THEN Monus(n, 1) ELSE Monus(n, 0)
  BY DEF Monus
<1>5. PICK new \in Numbers :
        new = [likes |-> moved, views |-> counters[v].views, comments |-> counters[v].comments]
  BY DEF ReelsInv, ReelsTyped, Numbers
<1>6. [counters[v] EXCEPT !.likes = moved] = new
  BY <1>5 DEF ReelsInv, ReelsTyped, Numbers
<1>7. PICK c : c = [at |-> "sendLikes", clip |-> v, n |-> moved]
  OBVIOUS
<1>8. /\ clipCalls[r].at = "like" /\ clipCalls[r] # Idle
      /\ clipLikes' = IF liked THEN clipLikes \cup {row} ELSE clipLikes \ {row}
      /\ counters' = [counters EXCEPT ![v].likes = moved]
      /\ Continues(r, c) /\ ClipGhosts
      /\ UNCHANGED <<clipViews, clipThread, clipWritten, clipHearts, shown>>
  BY <1>1, <1>2, <1>3, <1>4, <1>7 DEF LikeClip, Idle
<1>9. counters' = [counters EXCEPT ![v] = new]
  BY <1>6, <1>8, Zenon
<1>10. c \in ReelCalls
  BY <1>7 DEF ReelCalls
<1>11. /\ clipCalls' \in [Requests -> ReelCalls]
       /\ \A q \in Requests : clipCalls'[q] = IF q = r THEN c ELSE clipCalls[q]
  BY <1>8, <1>10, ReelGoesTo DEF ReelsInv
<1>12. /\ counters' \in [Clips -> Numbers]
       /\ \A w \in Clips : counters'[w] = IF w = v THEN new ELSE counters[w]
  BY <1>9 DEF ReelsInv, ReelsTyped
<1>13. row \in Clips \X Users /\ row[1] = v
  BY <1>2
<1>14. UNCHANGED <<night, nightRaced, clipMixed>>
  BY <1>8 DEF ClipGhosts
<1>15. ReelsTyped'
  BY <1>8, <1>11, <1>12, <1>13, <1>14 DEF ReelsInv, ReelsTyped, ReelsTypeOK, Numbers
<1>16. Rooted' /\ NightFair'
  BY <1>8, <1>14 DEF ReelsInv, Rooted, NightFair
<1>17. Remembers'
  BY <1>7, <1>8, <1>11 DEF ReelsInv, Remembers
<1>18. ViewsAgree'
  BY <1>5, <1>8, <1>12, <1>14 DEF ReelsInv, ViewsAgree
<1>19. LikesAgree'
  <2>1. ASSUME NEW w \in Clips, w # v
        PROVE  OfClip(clipLikes', w) = OfClip(clipLikes, w)
    BY <2>1, <1>8, <1>13 DEF OfClip
  <2>2. PICK S : S = OfClip(clipLikes, v)
    OBVIOUS
  <2>3. row \in clipLikes <=> row \in S
    BY <1>3, <1>13, <2>2 DEF ReelsInv, LikesAgree, OfClip
  <2>4. OfClip(clipLikes', v) = IF liked THEN S \cup {row} ELSE S \ {row}
    BY <1>8, <1>13, <2>2 DEF OfClip
  <2>5. /\ IsFiniteSet(OfClip(clipLikes', v))
        /\ ~nightRaced => moved = Cardinality(OfClip(clipLikes', v))
    <3>0. IsFiniteSet(S) /\ (~nightRaced => n = Cardinality(S))
      BY <1>3, <2>2 DEF ReelsInv, LikesAgree
    <3>1. CASE liked /\ row \in S
      <4>1. S \cup {row} = S
        BY <3>1
      <4> QED
        BY <3>0, <3>1, <4>1, <2>3, <2>4, <1>4
    <3>2. CASE liked /\ row \notin S
      BY <3>0, <3>2, <2>3, <2>4, <1>4, OneRowMore
    <3>3. CASE ~liked /\ row \in S
      <4>1. /\ IsFiniteSet(S \ {row}) /\ Cardinality(S) > 0
            /\ Cardinality(S \ {row}) = Cardinality(S) - 1
        BY <3>0, <3>3, OneRowLess
      <4>2. ~nightRaced => moved = n - 1
        BY <3>0, <3>3, <4>1, <2>3, <1>4 DEF Monus
      <4> QED
        BY <3>0, <3>3, <4>1, <4>2, <2>4
    <3>4. CASE ~liked /\ row \notin S
      <4>1. S \ {row} = S /\ moved = n
        BY <3>4, <2>3, <1>4 DEF Monus
      <4> QED
        BY <3>0, <3>4, <4>1, <2>4
    <3> QED
      BY <3>1, <3>2, <3>3, <3>4
  <2>6. ASSUME NEW w \in Clips
        PROVE  /\ IsFiniteSet(OfClip(clipLikes', w))
               /\ ~nightRaced' => counters'[w].likes = Cardinality(OfClip(clipLikes', w))
    <3>1. CASE w = v
      BY <3>1, <2>5, <1>5, <1>12, <1>14
    <3>2. CASE w # v
      BY <3>2, <2>1, <1>12, <1>14 DEF ReelsInv, LikesAgree
    <3> QED
      BY <3>1, <3>2
  <2> QED
    BY <2>6 DEF LikesAgree, OfClip
<1>20. LoneReels'
  <2> SUFFICES ASSUME ~clipMixed' PROVE (OneAtATime /\ CommentsAgree /\ RemovesRight /\ Watched)'
    BY DEF LoneReels
  <2>1. /\ OneAtATime' /\ CommentsAgree /\ RemovesRight /\ Watched
        /\ \A q \in Requests : q # r => clipCalls[q] = Idle /\ clipCalls'[q] = Idle
    BY <1>8, <1>10, GoesOnAlone
  <2>2. CommentsAgree'
    BY <2>1, <1>5, <1>8, <1>12 DEF CommentsAgree, CommentsOf
  <2>3. RemovesRight'
    BY <2>1, <1>7, <1>8, <1>11 DEF RemovesRight, Answers, Idle
  <2>4. Watched'
    BY <2>1, <1>5, <1>7, <1>8, <1>11, <1>12 DEF Watched, Idle
  <2> QED
    BY <2>1, <2>2, <2>3, <2>4
<1> QED
  BY <1>15, <1>16, <1>17, <1>18, <1>19, <1>20 DEF ReelsInv

(* A number goes out to those watching.                                    *)
LEMMA SendInv ==
    ASSUME ReelsInv, NEW r \in Requests, SendLikes(r) \/ SendViews(r) \/ SendCount(r)
    PROVE  ReelsInv'
<1>1. /\ UNCHANGED <<clipLikes, clipViews, clipThread, clipWritten, clipHearts, counters>>
      /\ clipCalls[r] # Idle /\ Continues(r, Idle) /\ ClipGhosts
      /\ clipCalls[r].at \in {"sendLikes", "readViews", "sendCount"}
  BY DEF SendLikes, SendViews, SendCount, rows, Idle
<1>2. Idle \in ReelCalls
  BY DEF ReelCalls
<1>3. /\ clipCalls' \in [Requests -> ReelCalls]
      /\ \A q \in Requests : clipCalls'[q] = IF q = r THEN Idle ELSE clipCalls[q]
  BY <1>1, <1>2, ReelGoesTo DEF ReelsInv
<1>4. UNCHANGED <<night, nightRaced, clipMixed>>
  BY <1>1 DEF ClipGhosts
<1>5. PICK f \in [Clips -> Numbers] :
        /\ shown' = f
        /\ \A w \in Clips :
             /\ f[w].likes = IF clipCalls[r].at = "sendLikes" /\ w = clipCalls[r].clip
                             THEN clipCalls[r].n ELSE shown[w].likes
             /\ f[w].views = IF clipCalls[r].at = "readViews" /\ w \in clipCalls[r].batch
                             THEN counters[w].views ELSE shown[w].views
             /\ f[w].comments = IF clipCalls[r].at = "sendCount" /\ w = clipCalls[r].clip
                                THEN counters[w].comments ELSE shown[w].comments
  <2>1. CASE SendLikes(r)
    <3>1. PICK v \in Clips, n \in Nat : v = clipCalls[r].clip /\ n = clipCalls[r].n
      BY <2>1, ReelCallType DEF SendLikes, ReelsInv
    <3>2. PICK new \in Numbers :
            new = [likes |-> n, views |-> shown[v].views, comments |-> shown[v].comments]
      BY DEF ReelsInv, ReelsTyped, Numbers
    <3>3. [shown[v] EXCEPT !.likes = n] = new
      BY <3>2 DEF ReelsInv, ReelsTyped, Numbers
    <3>4. shown' = [shown EXCEPT ![v].likes = n] /\ clipCalls[r].at = "sendLikes"
      BY <2>1, <3>1 DEF SendLikes
    <3>5. shown' = [shown EXCEPT ![v] = new]
      BY <3>3, <3>4, Zenon
    <3> QED
      BY <3>1, <3>2, <3>4, <3>5 DEF ReelsInv, ReelsTyped
  <2>2. CASE SendCount(r)
    <3>1. PICK v \in Clips : v = clipCalls[r].clip
      BY <2>2, ReelCallType DEF SendCount, ReelsInv
    <3>2. PICK new \in Numbers : new = [likes |-> shown[v].likes, views |-> shown[v].views,
                                        comments |-> counters[v].comments]
      BY DEF ReelsInv, ReelsTyped, Numbers
    <3>3. [shown[v] EXCEPT !.comments = counters[v].comments] = new
      BY <3>2 DEF ReelsInv, ReelsTyped, Numbers
    <3>4. shown' = [shown EXCEPT ![v].comments = counters[v].comments]
          /\ clipCalls[r].at = "sendCount"
      BY <2>2, <3>1 DEF SendCount
    <3>5. shown' = [shown EXCEPT ![v] = new]
      BY <3>3, <3>4, Zenon
    <3> QED
      BY <3>1, <3>2, <3>4, <3>5 DEF ReelsInv, ReelsTyped
  <2>3. CASE SendViews(r)
    <3>1. PICK b \in SUBSET Clips : b = clipCalls[r].batch
      BY <2>3, ReelCallType DEF SendViews, ReelsInv
    <3>2. shown' = [w \in Clips |-> IF w \in b
                       THEN [shown[w] EXCEPT !.views = counters[w].views] ELSE shown[w]]
          /\ clipCalls[r].at = "readViews"
      BY <2>3, <3>1 DEF SendViews
    <3>3. \A w \in Clips : [shown[w] EXCEPT !.views = counters[w].views]
            = [likes |-> shown[w].likes, views |-> counters[w].views,
               comments |-> shown[w].comments]
      BY DEF ReelsInv, ReelsTyped, Numbers
    <3>4. shown' = [w \in Clips |-> IF w \in b
                       THEN [likes |-> shown[w].likes, views |-> counters[w].views,
                             comments |-> shown[w].comments]
                       ELSE shown[w]]
      BY <3>2, <3>3
    <3>5. shown' \in [Clips -> Numbers]
      BY <3>4 DEF ReelsInv, ReelsTyped, Numbers
    <3> QED
      BY <3>1, <3>2, <3>4, <3>5
  <2> QED
    BY <2>1, <2>2, <2>3, <1>1
<1>6. ReelsTyped'
  BY <1>1, <1>3, <1>4, <1>5 DEF ReelsInv, ReelsTyped, ReelsTypeOK
<1>7. Rooted' /\ NightFair' /\ ViewsAgree' /\ LikesAgree'
  BY <1>1, <1>4 DEF ReelsInv, Rooted, NightFair, ViewsAgree, LikesAgree
<1>8. Remembers'
  BY <1>1, <1>3 DEF ReelsInv, Remembers, Idle
<1>9. LoneReels'
  <2> SUFFICES ASSUME ~clipMixed' PROVE (OneAtATime /\ CommentsAgree /\ RemovesRight /\ Watched)'
    BY DEF LoneReels
  <2>1. /\ OneAtATime' /\ CommentsAgree /\ RemovesRight /\ Watched
        /\ \A q \in Requests : q # r => clipCalls[q] = Idle /\ clipCalls'[q] = Idle
    BY <1>1, <1>2, GoesOnAlone
  <2>2. CommentsAgree' /\ RemovesRight'
    BY <2>1, <1>1, <1>3 DEF CommentsAgree, CommentsOf, RemovesRight, Answers, Idle
  <2>3. \A q \in Requests : q # r => clipCalls[q].at = "idle"
    BY <2>1 DEF Idle
  <2>4. Watched'
    BY <2>1, <2>3, <1>1, <1>3, <1>5 DEF Watched, Idle
  <2> QED
    BY <2>1, <2>2, <2>4
<1> QED
  BY <1>6, <1>7, <1>8, <1>9 DEF ReelsInv

(* A batch of views: one row and one more for each reel that had none of   *)
(* this viewer.                                                            *)
LEMMA RecordViewsInv ==
    ASSUME ReelsInv, NEW r \in Requests, NEW b \in SUBSET Clips, NEW key \in ViewerKeys,
           RecordViews(r, b, key)
    PROVE  ReelsInv'
<1>1. PICK fresh \in SUBSET Clips : fresh = Fresh(b, key)
  BY DEF Fresh
<1>2. PICK c \in ReelCalls :
        /\ c = IF fresh = {} THEN Idle ELSE [at |-> "readViews", batch |-> b]
        /\ Continues(r, c)
  BY <1>1 DEF RecordViews, ReelCalls
<1>3. /\ clipCalls[r] = Idle
      /\ clipViews' = clipViews \cup {<<v, key>> : v \in b}
      /\ counters' = [v \in Clips |->
                        IF v \in fresh THEN [counters[v] EXCEPT !.views = @ + 1] ELSE counters[v]]
      /\ ~clipMixed' => ~clipMixed /\ \A q \in Requests : q # r => clipCalls[q] = Idle
      /\ UNCHANGED <<clipLikes, clipThread, clipWritten, clipHearts, shown, night, nightRaced>>
  BY <1>1 DEF RecordViews, Alone
<1>4. /\ clipCalls' \in [Requests -> ReelCalls]
      /\ \A q \in Requests : clipCalls'[q] = IF q = r THEN c ELSE clipCalls[q]
  BY <1>2, ReelGoesTo DEF ReelsInv
<1>5. \A v \in Clips : [counters[v] EXCEPT !.views = @ + 1]
        = [likes |-> counters[v].likes, views |-> counters[v].views + 1,
           comments |-> counters[v].comments]
  BY DEF ReelsInv, ReelsTyped, Numbers
<1>6. /\ counters' \in [Clips -> Numbers]
      /\ \A v \in Clips :
           /\ counters'[v].likes = counters[v].likes
           /\ counters'[v].comments = counters[v].comments
           /\ counters'[v].views = IF v \in fresh THEN counters[v].views + 1
                                                  ELSE counters[v].views
  <2>1. counters' = [v \in Clips |-> IF v \in fresh
                        THEN [likes |-> counters[v].likes, views |-> counters[v].views + 1,
                              comments |-> counters[v].comments]
                        ELSE counters[v]]
    BY <1>3, <1>5
  <2>2. counters' \in [Clips -> Numbers]
    BY <2>1 DEF ReelsInv, ReelsTyped, Numbers
  <2> QED
    BY <2>1, <2>2
<1>7. ReelsTyped'
  <2>1. \A v \in b : <<v, key>> \in Clips \X ViewerKeys
    OBVIOUS
  <2> QED
    BY <2>1, <1>3, <1>4, <1>6 DEF ReelsInv, ReelsTyped, ReelsTypeOK, Numbers
<1>8. Rooted' /\ NightFair'
  BY <1>3 DEF ReelsInv, Rooted, NightFair
<1>9. Remembers'
  BY <1>2, <1>3, <1>4 DEF ReelsInv, Remembers, Idle
<1>10. LikesAgree'
  BY <1>3, <1>6 DEF ReelsInv, LikesAgree
<1>11. ViewsAgree'
  <2> SUFFICES ASSUME NEW v \in Clips
               PROVE  /\ IsFiniteSet(OfClip(clipViews', v))
                      /\ ~nightRaced => counters'[v].views = Cardinality(OfClip(clipViews', v))
    BY <1>3 DEF ViewsAgree, OfClip
  <2>1. PICK S : S = OfClip(clipViews, v)
    OBVIOUS
  <2>2. PICK x : x = <<v, key>>
    OBVIOUS
  <2>3. /\ IsFiniteSet(S)
        /\ ~nightRaced => counters[v].views = Cardinality(S)
        /\ counters[v].views \in Nat
    BY <2>1 DEF ReelsInv, ViewsAgree, ReelsTyped, Numbers
  <2>4. v \in fresh <=> v \in b /\ x \notin S
    BY <1>1, <2>1, <2>2 DEF Fresh, OfClip
  <2>5. OfClip(clipViews', v) = IF v \in b THEN S \cup {x} ELSE S
    <3>1. \A y \in {<<w, key>> : w \in b} : y[1] = v <=> y = x /\ v \in b
      BY <2>2
    <3>2. v \in b => x \in {<<w, key>> : w \in b}
      BY <2>2
    <3>3. \A y : y \in OfClip(clipViews', v) <=> y \in S \/ (v \in b /\ y = x)
      BY <1>3, <2>1, <2>2, <3>1, <3>2 DEF OfClip
    <3> QED
      BY <3>3
  <2>6. CASE v \in fresh
    BY <2>3, <2>4, <2>5, <2>6, <1>6, OneRowMore
  <2>7. CASE v \notin fresh
    <3>1. OfClip(clipViews', v) = S
      BY <2>4, <2>5, <2>7
    <3> QED
      BY <3>1, <2>3, <2>7, <1>6
  <2> QED
    BY <2>6, <2>7
<1>12. LoneReels'
  <2> SUFFICES ASSUME ~clipMixed' PROVE (OneAtATime /\ CommentsAgree /\ RemovesRight /\ Watched)'
    BY DEF LoneReels
  <2>1. OneAtATime /\ CommentsAgree /\ RemovesRight /\ Watched
    BY <1>3 DEF ReelsInv, LoneReels
  <2>2. OneAtATime'
    BY <2>1, <1>3, <1>4 DEF OneAtATime
  <2>3. CommentsAgree'
    BY <2>1, <1>3, <1>6 DEF CommentsAgree, CommentsOf
  <2>4. RemovesRight'
    BY <2>1, <1>2, <1>3, <1>4 DEF RemovesRight, Answers, Idle
  <2>5. Watched'
    <3>1. \A q \in Requests : clipCalls[q].at = "idle"
      BY <1>3 DEF Idle
    <3>2. \A v \in Clips : shown[v].likes = counters[v].likes /\ shown[v].views = counters[v].views
                            /\ shown[v].comments = counters[v].comments
      BY <2>1, <3>1 DEF Watched
    <3>3. \A v \in fresh : clipCalls'[r].at = "readViews" /\ v \in clipCalls'[r].batch
      BY <1>1, <1>2, <1>4 DEF Fresh
    <3>4. \A q \in Requests : clipCalls'[q].at # "sendLikes"
      BY <1>2, <1>3, <1>4 DEF Idle
    <3> QED
      BY <3>2, <3>3, <3>4, <1>3, <1>6 DEF Watched
  <2> QED
    BY <2>2, <2>3, <2>4, <2>5
<1> QED
  BY <1>7, <1>8, <1>9, <1>10, <1>11, <1>12 DEF ReelsInv

ReplyRow == [clip : Clips, author : Users, parent : Nat \cup {None}, likes : Int, replies : Int]

(* Counting the replies of a comment moves nothing else in the thread.     *)
LEMMA MoveRepliesKeeps ==
    ASSUME NEW table, \A k \in DOMAIN table : table[k] \in ReplyRow, NEW c, NEW d \in Int,
           NEW moved, moved = MoveReplies(table, c, d)
    PROVE  /\ DOMAIN moved = DOMAIN table
           /\ \A k \in DOMAIN table : /\ moved[k] \in ReplyRow
                                      /\ moved[k].parent = table[k].parent
                                      /\ moved[k].clip = table[k].clip
<1>1. moved = [k \in DOMAIN table |->
                 IF k = c THEN [table[k] EXCEPT !.replies = @ + d] ELSE table[k]]
  BY DEF MoveReplies
<1>2. \A k \in DOMAIN table : [table[k] EXCEPT !.replies = @ + d]
        = [clip |-> table[k].clip, author |-> table[k].author, parent |-> table[k].parent,
           likes |-> table[k].likes, replies |-> table[k].replies + d]
  BY DEF ReplyRow
<1>3. moved = [k \in DOMAIN table |-> IF k = c
                 THEN [clip |-> table[k].clip, author |-> table[k].author,
                       parent |-> table[k].parent, likes |-> table[k].likes,
                       replies |-> table[k].replies + d]
                 ELSE table[k]]
  BY <1>1, <1>2
<1> QED
  BY <1>3 DEF ReplyRow

(* A comment that goes takes its answers with it, and no other goes.       *)
LEMMA ThreadShrinks ==
    ASSUME ReelsInv, NEW c, c # None,
           DOMAIN clipThread' = DOMAIN clipThread \ ({c} \cup Answers(c)),
           \A k \in DOMAIN clipThread' : /\ clipThread'[k].parent = clipThread[k].parent
                                         /\ clipThread'[k].clip = clipThread[k].clip
    PROVE  Rooted'
BY DEF ReelsInv, Rooted, Answers

(* A comment is written under a root of its reel that stands.              *)
LEMMA WriteReplyInv ==
    ASSUME ReelsInv, NEW r \in Requests, WriteReply(r)
    PROVE  ReelsInv'
<1>1. PICK v \in Clips, u \in Users, p \in Nat \cup {None} :
        v = clipCalls[r].clip /\ u = clipCalls[r].user /\ p = clipCalls[r].parent
  BY ReelCallType DEF WriteReply, ReelsInv
<1>2. PICK k : k = clipWritten + 1
  OBVIOUS
<1>3. PICK row : row = [clip |-> v, author |-> u, parent |-> p, likes |-> 0, replies |-> 0]
  OBVIOUS
<1>4. PICK moved : moved = MoveReplies(clipThread, p, 1)
  OBVIOUS
<1>5. /\ clipCalls[r].at = "write" /\ clipCalls[r] # Idle /\ clipWritten < MaxReplies
      /\ IF p \in DOMAIN clipThread \cup {None}
         THEN /\ clipWritten' = k
              /\ clipThread' = With(moved, k, row)
              /\ counters' = [counters EXCEPT ![v].comments = @ + 1]
              /\ Continues(r, [at |-> "sendCount", clip |-> v])
         ELSE /\ Continues(r, Idle)
              /\ UNCHANGED <<clipWritten, clipThread, counters>>
      /\ ClipGhosts
      /\ UNCHANGED <<clipLikes, clipViews, clipHearts, shown>>
  BY <1>1, <1>2, <1>3, <1>4 DEF WriteReply, Idle
<1>6. UNCHANGED <<night, nightRaced, clipMixed>>
  BY <1>5 DEF ClipGhosts
<1>7. /\ clipWritten \in Nat
      /\ \A j \in DOMAIN clipThread : j \in Nat /\ j # None /\ j <= clipWritten
  BY ThreadIsFinite DEF ReelsInv
<1>8. CASE p \notin DOMAIN clipThread \cup {None}
  <2>1. Idle \in ReelCalls
    BY DEF ReelCalls
  <2>2. /\ clipCalls' \in [Requests -> ReelCalls]
        /\ \A q \in Requests : clipCalls'[q] = IF q = r THEN Idle ELSE clipCalls[q]
    BY <1>5, <1>8, <2>1, ReelGoesTo DEF ReelsInv
  <2>3. ReelsTyped'
    BY <1>5, <1>6, <1>8, <2>2 DEF ReelsInv, ReelsTyped, ReelsTypeOK
  <2>4. Rooted' /\ NightFair' /\ ViewsAgree' /\ LikesAgree'
    BY <1>5, <1>6, <1>8 DEF ReelsInv, Rooted, NightFair, ViewsAgree, LikesAgree
  <2>5. Remembers'
    BY <1>5, <1>8, <2>2 DEF ReelsInv, Remembers, Idle
  <2>6. LoneReels'
    <3> SUFFICES ASSUME ~clipMixed' PROVE (OneAtATime /\ CommentsAgree /\ RemovesRight /\ Watched)'
      BY DEF LoneReels
    <3>1. /\ OneAtATime' /\ CommentsAgree /\ RemovesRight /\ Watched
          /\ \A q \in Requests : q # r => clipCalls[q] = Idle /\ clipCalls'[q] = Idle
      BY <1>5, <1>8, <2>1, GoesOnAlone
    <3>2. CommentsAgree' /\ RemovesRight'
      BY <3>1, <1>5, <1>8, <2>2 DEF CommentsAgree, CommentsOf, RemovesRight, Answers, Idle
    <3>3. Watched'
      BY <3>1, <1>5, <1>8, <2>2 DEF Watched, Idle
    <3> QED
      BY <3>1, <3>2, <3>3
  <2> QED
    BY <2>3, <2>4, <2>5, <2>6 DEF ReelsInv
<1>9. CASE p \in DOMAIN clipThread \cup {None}
  <2>1. PICK c \in ReelCalls : c = [at |-> "sendCount", clip |-> v]
    BY DEF ReelCalls
  <2>2. /\ clipCalls' \in [Requests -> ReelCalls] /\ Continues(r, c)
        /\ \A q \in Requests : clipCalls'[q] = IF q = r THEN c ELSE clipCalls[q]
    BY <1>5, <1>9, <2>1, ReelGoesTo DEF ReelsInv
  <2>3. \A j \in DOMAIN clipThread : clipThread[j] \in ReplyRow
    BY DEF ReelsInv, ReelsTyped, ReplyRow
  <2>4. /\ DOMAIN moved = DOMAIN clipThread
        /\ \A j \in DOMAIN clipThread : /\ moved[j] \in ReplyRow
                                        /\ moved[j].parent = clipThread[j].parent
                                        /\ moved[j].clip = clipThread[j].clip
    BY <1>4, <2>3, MoveRepliesKeeps
  <2>5. /\ DOMAIN clipThread' = DOMAIN clipThread \cup {k} /\ clipThread'[k] = row
        /\ \A j \in DOMAIN clipThread : /\ j # k /\ clipThread'[j] \in ReplyRow
                                        /\ clipThread'[j].parent = clipThread[j].parent
                                        /\ clipThread'[j].clip = clipThread[j].clip
    BY <1>2, <1>5, <1>7, <1>9, <2>4 DEF With
  <2>6. row \in ReplyRow /\ row.parent = p /\ row.clip = v
    BY <1>3 DEF ReplyRow
  <2>70. counters[v].likes \in Nat /\ counters[v].views \in Nat /\ counters[v].comments \in Int
    BY DEF ReelsInv, ReelsTyped, Numbers
  <2>71. PICK m \in Int : m = counters[v].comments + 1
    BY <2>70
  <2>72. PICK new : new = [likes |-> counters[v].likes, views |-> counters[v].views,
                           comments |-> m]
    OBVIOUS
  <2>7. /\ new \in Numbers /\ new.comments = counters[v].comments + 1
        /\ new.likes = counters[v].likes /\ new.views = counters[v].views
        /\ new = [likes |-> counters[v].likes, views |-> counters[v].views,
                  comments |-> counters[v].comments + 1]
    BY <2>70, <2>71, <2>72 DEF Numbers
  <2>8. [counters[v] EXCEPT !.comments = @ + 1] = new
    BY <2>7 DEF ReelsInv, ReelsTyped, Numbers
  <2>9. counters' = [counters EXCEPT ![v].comments = @ + 1]
    BY <1>5, <1>9
  <2>10. counters' = [counters EXCEPT ![v] = new]
    BY <2>8, <2>9, Zenon
  <2>11. /\ counters' \in [Clips -> Numbers]
         /\ \A w \in Clips : counters'[w] = IF w = v THEN new ELSE counters[w]
    BY <2>7, <2>10 DEF ReelsInv, ReelsTyped
  <2>12. ReelsTyped'
    <3>1. clipWritten' \in 0 .. MaxReplies /\ DOMAIN clipThread' \subseteq 1 .. clipWritten'
      BY <1>2, <1>5, <1>7, <1>9, <2>5, ReelsBounds DEF ReelsInv, ReelsTyped, ReelsTypeOK
    <3>2. \A j \in DOMAIN clipThread' :
            clipThread'[j] \in [clip : Clips, author : Users, parent : Nat \cup {None},
                                likes : Int, replies : Int]
      BY <2>5, <2>6 DEF ReplyRow
    <3> QED
      BY <1>5, <1>6, <2>2, <2>11, <3>1, <3>2 DEF ReelsInv, ReelsTyped, ReelsTypeOK, Numbers
  <2>13. p # None => p \in DOMAIN clipThread /\ clipThread[p].parent = None /\ clipThread[p].clip = v
    BY <1>1, <1>5, <1>9 DEF ReelsInv, Remembers
  <2>14. Rooted'
    BY <2>5, <2>6, <2>13 DEF ReelsInv, Rooted
  <2>15. Remembers'
    <3>1. \A n : n \in 1 .. clipWritten => n # k /\ n \in 1 .. clipWritten'
      BY <1>2, <1>5, <1>7, <1>9
    <3> QED
      BY <2>1, <2>2, <2>5, <3>1 DEF ReelsInv, Remembers
  <2>16. NightFair'
    BY <1>6 DEF ReelsInv, NightFair
  <2>17. LikesAgree' /\ ViewsAgree'
    BY <1>5, <1>6, <2>7, <2>11 DEF ReelsInv, LikesAgree, ViewsAgree
  <2>18. LoneReels'
    <3> SUFFICES ASSUME ~clipMixed' PROVE (OneAtATime /\ CommentsAgree /\ RemovesRight /\ Watched)'
      BY DEF LoneReels
    <3>1. /\ OneAtATime' /\ CommentsAgree /\ RemovesRight /\ Watched
          /\ \A q \in Requests : q # r => clipCalls[q] = Idle /\ clipCalls'[q] = Idle
      BY <1>5, <2>2, GoesOnAlone
    <3>2. CommentsAgree'
      <4> SUFFICES ASSUME NEW w \in Clips
                   PROVE  counters'[w].comments = Cardinality(CommentsOf(w)')
        BY DEF CommentsAgree
      <4>1. PICK S : S = CommentsOf(w)
        OBVIOUS
      <4>2. IsFiniteSet(S) /\ k \notin S /\ counters[w].comments = Cardinality(S)
        BY <4>1, <3>1, <2>5, ThreadIsFinite DEF ReelsInv, CommentsAgree, CommentsOf
      <4>3. CommentsOf(w)' = IF w = v THEN S \cup {k} ELSE S
        BY <4>1, <2>5, <2>6 DEF CommentsOf
      <4> QED
        BY <4>2, <4>3, <2>7, <2>11, OneRowMore
    <3>3. RemovesRight'
      BY <3>1, <2>1, <2>2 DEF RemovesRight, Idle
    <3>4. Watched'
      BY <3>1, <1>5, <2>1, <2>2, <2>7, <2>11 DEF Watched, Idle
    <3> QED
      BY <3>1, <3>2, <3>3, <3>4
  <2> QED
    BY <2>12, <2>14, <2>15, <2>16, <2>17, <2>18 DEF ReelsInv
<1> QED
  BY <1>8, <1>9

(* The replies that will go with a comment are counted.                    *)
LEMMA CountRepliesInv ==
    ASSUME ReelsInv, NEW r \in Requests, CountReplies(r)
    PROVE  ReelsInv'
<1>1. PICK k \in Nat, v \in Clips, p \in Nat \cup {None} :
        k = clipCalls[r].comment /\ v = clipCalls[r].clip /\ p = clipCalls[r].parent
  BY ReelCallType DEF CountReplies, ReelsInv
<1>2. PICK n \in Nat : n = IF p = None THEN Cardinality(Answers(k)) ELSE 0
  BY ThreadIsFinite, FS_CardinalityType DEF ReelsInv
<1>3. PICK c \in ReelCalls :
        c = [at |-> "remove", comment |-> k, clip |-> v, parent |-> p, n |-> n]
  BY DEF ReelCalls
<1>4. /\ clipCalls[r].at = "countReplies" /\ clipCalls[r] # Idle
      /\ Continues(r, c) /\ ClipGhosts
      /\ UNCHANGED <<clipLikes, clipViews, clipThread, clipWritten, clipHearts, counters, shown>>
  BY <1>1, <1>2, <1>3 DEF CountReplies, rows, Idle
<1>5. /\ clipCalls' \in [Requests -> ReelCalls]
      /\ \A q \in Requests : clipCalls'[q] = IF q = r THEN c ELSE clipCalls[q]
  BY <1>4, ReelGoesTo DEF ReelsInv
<1>6. UNCHANGED <<night, nightRaced, clipMixed>>
  BY <1>4 DEF ClipGhosts
<1>7. ReelsTyped'
  BY <1>4, <1>5, <1>6 DEF ReelsInv, ReelsTyped, ReelsTypeOK
<1>8. Rooted' /\ NightFair' /\ ViewsAgree' /\ LikesAgree'
  BY <1>4, <1>6 DEF ReelsInv, Rooted, NightFair, ViewsAgree, LikesAgree
<1>9. Remembers'
  BY <1>1, <1>3, <1>4, <1>5 DEF ReelsInv, Remembers
<1>10. LoneReels'
  <2> SUFFICES ASSUME ~clipMixed' PROVE (OneAtATime /\ CommentsAgree /\ RemovesRight /\ Watched)'
    BY DEF LoneReels
  <2>1. /\ OneAtATime' /\ CommentsAgree /\ RemovesRight /\ Watched
        /\ \A q \in Requests : q # r => clipCalls[q] = Idle /\ clipCalls'[q] = Idle
    BY <1>4, GoesOnAlone
  <2>2. CommentsAgree'
    BY <2>1, <1>4 DEF CommentsAgree, CommentsOf
  <2>3. RemovesRight'
    BY <2>1, <1>1, <1>2, <1>3, <1>4, <1>5 DEF RemovesRight, Answers, Idle
  <2>4. Watched'
    BY <2>1, <1>3, <1>4, <1>5 DEF Watched, Idle
  <2> QED
    BY <2>1, <2>2, <2>3, <2>4
<1> QED
  BY <1>7, <1>8, <1>9, <1>10 DEF ReelsInv

(* The comment and its answers go, and the number by what was counted.     *)
LEMMA RemoveReplyInv ==
    ASSUME ReelsInv, NEW r \in Requests, RemoveReply(r)
    PROVE  ReelsInv'
<1>1. PICK k \in Nat, v \in Clips, p \in Nat \cup {None}, n \in Nat :
        /\ k = clipCalls[r].comment /\ v = clipCalls[r].clip
        /\ p = clipCalls[r].parent /\ n = clipCalls[r].n
  BY ReelCallType DEF RemoveReply, ReelsInv
<1>2. PICK gone : gone = {k} \cup Answers(k)
  OBVIOUS
<1>3. PICK c \in ReelCalls : c = [at |-> "sendCount", clip |-> v]
  BY DEF ReelCalls
<1>4. PICK kept : kept = Without(clipThread, gone)
  OBVIOUS
<1>5. /\ clipCalls[r].at = "remove" /\ clipCalls[r] # Idle
      /\ clipThread' = MoveReplies(kept, p, -1)
      /\ counters' = [counters EXCEPT ![v].comments = @ - (1 + n)]
      /\ Continues(r, c) /\ ClipGhosts
      /\ UNCHANGED <<clipLikes, clipViews, clipWritten, shown>>
  BY <1>1, <1>2, <1>3, <1>4 DEF RemoveReply, Idle
<1>6. UNCHANGED <<night, nightRaced, clipMixed>>
  BY <1>5 DEF ClipGhosts
<1>7. /\ clipCalls' \in [Requests -> ReelCalls]
      /\ \A q \in Requests : clipCalls'[q] = IF q = r THEN c ELSE clipCalls[q]
  BY <1>5, ReelGoesTo DEF ReelsInv
<1>8. /\ DOMAIN kept = DOMAIN clipThread \ gone
      /\ \A j \in DOMAIN kept : kept[j] = clipThread[j] /\ kept[j] \in ReplyRow
  BY <1>4 DEF Without, ReelsInv, ReelsTyped, ReplyRow
<1>9. /\ DOMAIN clipThread' = DOMAIN clipThread \ gone
      /\ \A j \in DOMAIN clipThread' : /\ clipThread'[j] \in ReplyRow
                                       /\ clipThread'[j].parent = clipThread[j].parent
                                       /\ clipThread'[j].clip = clipThread[j].clip
  BY <1>5, <1>8, MoveRepliesKeeps
<1>70. counters[v].likes \in Nat /\ counters[v].views \in Nat /\ counters[v].comments \in Int
  BY DEF ReelsInv, ReelsTyped, Numbers
<1>71. PICK m \in Int : m = counters[v].comments - (1 + n)
  BY <1>70
<1>72. PICK new : new = [likes |-> counters[v].likes, views |-> counters[v].views,
                         comments |-> m]
  OBVIOUS
<1>10. /\ new \in Numbers /\ new.comments = counters[v].comments - (1 + n)
       /\ new.likes = counters[v].likes /\ new.views = counters[v].views
       /\ new = [likes |-> counters[v].likes, views |-> counters[v].views,
                 comments |-> counters[v].comments - (1 + n)]
  BY <1>70, <1>71, <1>72 DEF Numbers
<1>11. [counters[v] EXCEPT !.comments = @ - (1 + n)] = new
  BY <1>10 DEF ReelsInv, ReelsTyped, Numbers
<1>12. counters' = [counters EXCEPT ![v] = new]
  BY <1>5, <1>11, Zenon
<1>13. /\ counters' \in [Clips -> Numbers]
       /\ \A w \in Clips : counters'[w] = IF w = v THEN new ELSE counters[w]
  BY <1>10, <1>12 DEF ReelsInv, ReelsTyped
<1>14. ReelsTyped'
  <2>1. \A j \in DOMAIN clipThread' :
          clipThread'[j] \in [clip : Clips, author : Users, parent : Nat \cup {None},
                              likes : Int, replies : Int]
    BY <1>9 DEF ReplyRow
  <2> QED
    BY <1>5, <1>6, <1>7, <1>9, <1>13, <2>1 DEF ReelsInv, ReelsTyped, ReelsTypeOK, Numbers
<1>15. Rooted'
  BY <1>2, <1>9, ThreadShrinks, ReelsBounds
<1>16. Remembers'
  BY <1>3, <1>5, <1>7, <1>9 DEF ReelsInv, Remembers
<1>17. NightFair' /\ LikesAgree' /\ ViewsAgree'
  BY <1>5, <1>6, <1>10, <1>13 DEF ReelsInv, NightFair, LikesAgree, ViewsAgree
<1>18. LoneReels'
  <2> SUFFICES ASSUME ~clipMixed' PROVE (OneAtATime /\ CommentsAgree /\ RemovesRight /\ Watched)'
    BY DEF LoneReels
  <2>1. /\ OneAtATime' /\ CommentsAgree /\ RemovesRight /\ Watched
        /\ \A q \in Requests : q # r => clipCalls[q] = Idle /\ clipCalls'[q] = Idle
    BY <1>5, GoesOnAlone
  <2>2. /\ k \in DOMAIN clipThread /\ clipThread[k].parent = p /\ clipThread[k].clip = v
        /\ n = IF p = None THEN Cardinality(Answers(k)) ELSE 0
    BY <2>1, <1>1, <1>5 DEF RemovesRight, ReelsInv, Remembers
  <2>3. /\ Answers(k) \subseteq CommentsOf(v) /\ k \notin Answers(k) /\ k \in CommentsOf(v)
        /\ p # None => Answers(k) = {}
    <3>1. k # None
      BY ReelsBounds
    <3> QED
      BY <2>2, <3>1 DEF ReelsInv, Rooted, Answers, CommentsOf
  <2>4. IsFiniteSet(Answers(k)) /\ n = Cardinality(Answers(k))
    BY <2>2, <2>3, ThreadIsFinite, FS_EmptySet DEF ReelsInv
  <2>5. IsFiniteSet(gone) /\ Cardinality(gone) = 1 + n
    <3>1. gone = Answers(k) \cup {k}
      BY <1>2
    <3> QED
      BY <3>1, <2>3, <2>4, OneRowMore
  <2>6. CommentsAgree'
    <3> SUFFICES ASSUME NEW w \in Clips
                 PROVE  counters'[w].comments = Cardinality(CommentsOf(w)')
      BY DEF CommentsAgree
    <3>1. PICK S : S = CommentsOf(w)
      OBVIOUS
    <3>2. IsFiniteSet(S) /\ counters[w].comments = Cardinality(S) /\ Cardinality(S) \in Nat
      BY <3>1, <2>1, ThreadIsFinite, FS_CardinalityType DEF ReelsInv, CommentsAgree
    <3>3. CommentsOf(w)' = S \ gone
      BY <3>1, <1>9 DEF CommentsOf
    <3>4. CASE w = v
      <4>1. gone \subseteq S
        BY <3>1, <3>4, <2>3, <1>2
      <4>2. Cardinality(S \ gone) = Cardinality(S) - Cardinality(S \cap gone)
        BY <3>2, FS_Difference
      <4>3. S \cap gone = gone
        BY <4>1
      <4>4. Cardinality(CommentsOf(w)') = Cardinality(S) - (1 + n)
        BY <3>3, <4>2, <4>3, <2>5
      <4>5. counters'[w].comments = counters[w].comments - (1 + n)
        BY <3>4, <1>10, <1>13
      <4> QED
        BY <3>2, <4>4, <4>5
    <3>5. CASE w # v
      <4>1. S \ gone = S
        BY <3>1, <3>5, <2>3, <1>2 DEF CommentsOf
      <4> QED
        BY <3>2, <3>3, <3>5, <4>1, <1>13
    <3> QED
      BY <3>4, <3>5
  <2>7. RemovesRight'
    BY <2>1, <1>3, <1>7 DEF RemovesRight, Idle
  <2>8. Watched'
    BY <2>1, <1>3, <1>5, <1>7, <1>10, <1>13 DEF Watched, Idle
  <2> QED
    BY <2>1, <2>6, <2>7, <2>8
<1> QED
  BY <1>14, <1>15, <1>16, <1>17, <1>18 DEF ReelsInv

(* A heart changes the row of its comment in one field.                    *)
LEMMA LikeReplyInv ==
    ASSUME ReelsInv, NEW r \in Requests, LikeReply(r)
    PROVE  ReelsInv'
<1>1. PICK k \in Nat, liked \in BOOLEAN : k = clipCalls[r].comment /\ liked = clipCalls[r].liked
  BY ReelCallType DEF LikeReply, ReelsInv
<1>2. Idle \in ReelCalls
  BY DEF ReelCalls
<1>3. /\ clipCalls[r].at = "heart" /\ clipCalls[r] # Idle
      /\ clipThread' = IF clipHearts' = clipHearts \/ k \notin DOMAIN clipThread THEN clipThread
                       ELSE [clipThread EXCEPT ![k].likes =
                               IF liked THEN @ + 1 ELSE Monus(@, 1)]
      /\ Continues(r, Idle) /\ ClipGhosts
      /\ UNCHANGED <<clipLikes, clipViews, clipWritten, counters, shown>>
  BY <1>1 DEF LikeReply, Idle
<1>4. UNCHANGED <<night, nightRaced, clipMixed>>
  BY <1>3 DEF ClipGhosts
<1>5. /\ clipCalls' \in [Requests -> ReelCalls]
      /\ \A q \in Requests : clipCalls'[q] = IF q = r THEN Idle ELSE clipCalls[q]
  BY <1>2, <1>3, ReelGoesTo DEF ReelsInv
<1>6. \A j \in DOMAIN clipThread : clipThread[j] \in ReplyRow
  BY DEF ReelsInv, ReelsTyped, ReplyRow
<1>7. /\ DOMAIN clipThread' = DOMAIN clipThread
      /\ \A j \in DOMAIN clipThread : /\ clipThread'[j] \in ReplyRow
                                      /\ clipThread'[j].parent = clipThread[j].parent
                                      /\ clipThread'[j].clip = clipThread[j].clip
  <2>1. CASE clipThread' = clipThread
    BY <2>1, <1>6
  <2>2. CASE clipThread' # clipThread
    <3>1. /\ k \in DOMAIN clipThread
          /\ clipThread' = [clipThread EXCEPT ![k].likes = IF liked THEN @ + 1 ELSE Monus(@, 1)]
      BY <1>3, <2>2
    <3>2. clipThread[k] \in ReplyRow /\ clipThread[k].likes \in Int
      BY <3>1, <1>6 DEF ReplyRow
    <3>3. PICK m \in Int :
            m = IF liked THEN clipThread[k].likes + 1 ELSE Monus(clipThread[k].likes, 1)
      BY <3>2 DEF Monus
    <3>4. PICK row : row = [clip |-> clipThread[k].clip, author |-> clipThread[k].author,
                            parent |-> clipThread[k].parent, likes |-> m,
                            replies |-> clipThread[k].replies]
      OBVIOUS
    <3>5. row \in ReplyRow /\ row.parent = clipThread[k].parent /\ row.clip = clipThread[k].clip
      BY <3>2, <3>3, <3>4 DEF ReplyRow
    <3>6. [clipThread[k] EXCEPT !.likes = m] = row
      BY <3>2, <3>4 DEF ReplyRow
    <3>7. clipThread' = [clipThread EXCEPT ![k].likes = m]
      BY <3>1, <3>3
    <3>8. clipThread' = [clipThread EXCEPT ![k] = row]
      BY <3>6, <3>7, Zenon
    <3> QED
      BY <3>1, <3>5, <3>8, <1>6
  <2> QED
    BY <2>1, <2>2
<1>8. ReelsTyped'
  <2>1. \A j \in DOMAIN clipThread' :
          clipThread'[j] \in [clip : Clips, author : Users, parent : Nat \cup {None},
                              likes : Int, replies : Int]
    BY <1>7 DEF ReplyRow
  <2> QED
    BY <1>3, <1>4, <1>5, <1>7, <2>1 DEF ReelsInv, ReelsTyped, ReelsTypeOK
<1>9. Rooted'
  BY <1>7 DEF ReelsInv, Rooted
<1>10. NightFair' /\ LikesAgree' /\ ViewsAgree'
  BY <1>3, <1>4 DEF ReelsInv, NightFair, LikesAgree, ViewsAgree
<1>11. Remembers'
  BY <1>3, <1>5, <1>7 DEF ReelsInv, Remembers, Idle
<1>12. LoneReels'
  <2> SUFFICES ASSUME ~clipMixed' PROVE (OneAtATime /\ CommentsAgree /\ RemovesRight /\ Watched)'
    BY DEF LoneReels
  <2>1. /\ OneAtATime' /\ CommentsAgree /\ RemovesRight /\ Watched
        /\ \A q \in Requests : q # r => clipCalls[q] = Idle /\ clipCalls'[q] = Idle
    BY <1>2, <1>3, GoesOnAlone
  <2>2. \A v : CommentsOf(v)' = CommentsOf(v)
    BY <1>7 DEF CommentsOf
  <2>3. CommentsAgree'
    BY <2>1, <2>2, <1>3 DEF CommentsAgree
  <2>4. RemovesRight'
    BY <2>1, <1>5 DEF RemovesRight, Idle
  <2>5. Watched'
    BY <2>1, <1>3, <1>5 DEF Watched, Idle
  <2> QED
    BY <2>1, <2>3, <2>4, <2>5
<1> QED
  BY <1>8, <1>9, <1>10, <1>11, <1>12 DEF ReelsInv

(* A verdict takes a comment and its answers, and no number.               *)
LEMMA CondemnReplyInv ==
    ASSUME ReelsInv, NEW k \in DOMAIN clipThread, CondemnReply(k)
    PROVE  ReelsInv'
<1>1. PICK gone : gone = {k} \cup Answers(k)
  OBVIOUS
<1>2. /\ clipThread' = Without(clipThread, gone) /\ clipMixed' = TRUE
      /\ UNCHANGED <<clipLikes, clipViews, clipWritten, counters, shown, clipCalls, night,
                     nightRaced>>
  BY <1>1 DEF CondemnReply
<1>3. /\ DOMAIN clipThread' = DOMAIN clipThread \ gone
      /\ \A j \in DOMAIN clipThread' : clipThread'[j] = clipThread[j]
  BY <1>2 DEF Without
<1>4. ReelsTyped'
  BY <1>2, <1>3 DEF ReelsInv, ReelsTyped, ReelsTypeOK
<1>5. k # None
  BY ThreadIsFinite DEF ReelsInv
<1>6. Rooted'
  BY <1>1, <1>3, <1>5, ThreadShrinks
<1>7. Remembers'
  BY <1>2, <1>3 DEF ReelsInv, Remembers
<1>8. NightFair' /\ LikesAgree' /\ ViewsAgree' /\ LoneReels'
  BY <1>2 DEF ReelsInv, NightFair, LikesAgree, ViewsAgree, LoneReels
<1> QED
  BY <1>4, <1>6, <1>7, <1>8 DEF ReelsInv

(* The job finds nothing to count until requests have overlapped.          *)
LEMMA NightCountInv ==
    ASSUME ReelsInv, NightCount
    PROVE  ReelsInv'
<1>1. /\ night = None
      /\ \E v \in Clips : counters[v] # Counted(v)
      /\ night' = [v \in {w \in Clips : counters[w] # Counted(w)} |->
                     [counted |-> Counted(v), had |-> counters[v]]]
      /\ UNCHANGED <<clipLikes, clipViews, clipThread, clipWritten, clipHearts,
                     counters, shown, clipCalls, clipMixed, nightRaced>>
  BY DEF NightCount, rows
<1>2. \A v \in Clips :
        /\ Cardinality(OfClip(clipLikes, v)) \in Nat /\ Cardinality(OfClip(clipViews, v)) \in Nat
        /\ Cardinality(CommentsOf(v)) \in Nat
  BY ThreadIsFinite, FS_CardinalityType DEF ReelsInv, LikesAgree, ViewsAgree
<1>3. \A v \in Clips : /\ Counted(v) \in Numbers
                       /\ Counted(v).likes = Cardinality(OfClip(clipLikes, v))
                       /\ Counted(v).views = Cardinality(OfClip(clipViews, v))
                       /\ Counted(v).comments = Cardinality(CommentsOf(v))
  BY <1>2 DEF Counted, Stats, Numbers
<1>4. ReelsTyped'
  <2>1. \A v \in Clips : counters[v] \in Numbers
    BY DEF ReelsInv, ReelsTyped
  <2>2. night' \in [DOMAIN night' -> [counted : Numbers, had : Numbers]]
        /\ DOMAIN night' \subseteq Clips
    BY <1>1, <1>3, <2>1
  <2> QED
    BY <1>1, <2>2 DEF ReelsInv, ReelsTyped, ReelsTypeOK
<1>5. Rooted' /\ Remembers' /\ LikesAgree' /\ ViewsAgree'
  BY <1>1 DEF ReelsInv, Rooted, Remembers, LikesAgree, ViewsAgree
<1>6. NightFair'
  BY <1>1, <1>3 DEF ReelsInv, NightFair, LikesAgree, ViewsAgree
<1>7. clipMixed
  <2> SUFFICES ASSUME ~clipMixed PROVE FALSE
    OBVIOUS
  <2>1. PICK v \in Clips : counters[v] # Counted(v)
    BY <1>1
  <2>2. counters[v] \in Numbers /\ Counted(v) \in Numbers
    BY <1>3 DEF ReelsInv, ReelsTyped
  <2>3. /\ counters[v].likes = Counted(v).likes /\ counters[v].views = Counted(v).views
        /\ counters[v].comments = Counted(v).comments
    BY <1>3 DEF ReelsInv, LoneReels, OneAtATime, CommentsAgree, LikesAgree, ViewsAgree
  <2>4. \A x, y \in Numbers : (x.likes = y.likes /\ x.views = y.views /\ x.comments = y.comments)
                              => x = y
    BY DEF Numbers
  <2> QED
    BY <2>1, <2>2, <2>3, <2>4
<1>8. LoneReels'
  BY <1>1, <1>7 DEF LoneReels
<1> QED
  BY <1>4, <1>5, <1>6, <1>8 DEF ReelsInv

(* It stores what it counted, over a number that has moved if it has.      *)
LEMMA NightStoreInv ==
    ASSUME ReelsInv, NightStore
    PROVE  ReelsInv'
<1>1. /\ night # None /\ night' = None
      /\ counters' = [v \in Clips |-> IF v \in DOMAIN night
                                      THEN night[v].counted ELSE counters[v]]
      /\ nightRaced' = (nightRaced \/ \E v \in DOMAIN night : counters[v] # night[v].had)
      /\ UNCHANGED <<clipLikes, clipViews, clipThread, clipWritten, clipHearts, shown,
                     clipCalls, clipMixed>>
  BY DEF NightStore, rows
<1>2. \A v \in DOMAIN night : night[v].counted \in Numbers
  BY <1>1 DEF ReelsInv, ReelsTyped
<1>3. counters' \in [Clips -> Numbers]
  BY <1>1, <1>2 DEF ReelsInv, ReelsTyped
<1>4. ReelsTyped'
  BY <1>1, <1>3 DEF ReelsInv, ReelsTyped, ReelsTypeOK, Numbers
<1>5. Rooted' /\ Remembers' /\ NightFair'
  BY <1>1 DEF ReelsInv, Rooted, Remembers, NightFair
<1>6. ~nightRaced' => /\ ~nightRaced
                      /\ \A v \in Clips : /\ counters'[v].likes = counters[v].likes
                                          /\ counters'[v].views = counters[v].views
  BY <1>1 DEF ReelsInv, NightFair
<1>7. LikesAgree' /\ ViewsAgree'
  BY <1>1, <1>6 DEF ReelsInv, LikesAgree, ViewsAgree
<1>8. LoneReels'
  BY <1>1 DEF ReelsInv, LoneReels, OneAtATime
<1> QED
  BY <1>4, <1>5, <1>7, <1>8 DEF ReelsInv

(* Every step of the reels keeps the invariant.                            *)
LEMMA ReelsNextInv == ReelsInv /\ [ReelsNext]_clipVars => ReelsInv'
<1> SUFFICES ASSUME ReelsInv, [ReelsNext]_clipVars PROVE ReelsInv'
  OBVIOUS
<1>1. ASSUME NEW r \in Requests, Serve(r) PROVE ReelsInv'
  BY <1>1, LikeClipInv, SendInv, WriteReplyInv, CountRepliesInv, RemoveReplyInv, LikeReplyInv
     DEF Serve
<1>2. ASSUME NEW r \in Requests, NEW b \in SUBSET Clips, NEW key \in ViewerKeys,
             RecordViews(r, b, key)
      PROVE  ReelsInv'
  BY <1>2, RecordViewsInv
<1>3. ASSUME NEW k \in DOMAIN clipThread, CondemnReply(k) PROVE ReelsInv'
  BY <1>3, CondemnReplyInv
<1>4. CASE UNCHANGED clipVars
  <2>1. UNCHANGED <<clipLikes, clipViews, clipThread, clipWritten, clipHearts, counters, shown,
                    clipCalls, night, clipMixed, nightRaced>>
    BY <1>4 DEF clipVars
  <2>2. ReelsTyped' /\ Rooted'
    BY <2>1 DEF ReelsInv, ReelsTyped, ReelsTypeOK, Rooted
  <2>3. Remembers'
    BY <2>1 DEF ReelsInv, Remembers
  <2>4. LikesAgree' /\ ViewsAgree' /\ NightFair'
    BY <2>1 DEF ReelsInv, LikesAgree, ViewsAgree, NightFair
  <2>5. OneAtATime => OneAtATime'
    BY <2>1 DEF OneAtATime
  <2>6. CommentsAgree => CommentsAgree'
    BY <2>1 DEF CommentsAgree, CommentsOf
  <2>7. RemovesRight => RemovesRight'
    BY <2>1 DEF RemovesRight, Answers
  <2>8. Watched => Watched'
    BY <2>1 DEF Watched
  <2> QED
    BY <2>1, <2>2, <2>3, <2>4, <2>5, <2>6, <2>7, <2>8 DEF ReelsInv, LoneReels
<1> QED
  BY <1>1, <1>2, <1>3, <1>4, AsksInv, NightCountInv, NightStoreInv DEF ReelsNext

(* A reel's likes and views are its rows until the nightly count was       *)
(* overtaken, its comments and what the watchers are shown until two       *)
(* requests overlapped, and every reply has its root, for any reels,       *)
(* people and requests (video-engagement.service.ts:53-55,                 *)
(* video-comments.service.ts:124-129).                                     *)
THEOREM ReelNumbersHold == ReelsSpec => [](ReelNumbersAreRows /\ ReelsTypeOK)
<1>1. ReelsInv => ReelNumbersAreRows /\ ReelsTypeOK
  <2> SUFFICES ASSUME ReelsInv PROVE ReelNumbersAreRows /\ ReelsTypeOK
    OBVIOUS
  <2>1. \A v \in Clips : /\ Counted(v).likes = Cardinality(OfClip(clipLikes, v))
                         /\ Counted(v).views = Cardinality(OfClip(clipViews, v))
                         /\ Counted(v).comments = Cardinality(CommentsOf(v))
    BY DEF Counted, Stats
  <2>2. \A k \in DOMAIN clipThread : clipThread[k].parent \in DOMAIN clipThread \cup {None}
    BY DEF ReelsInv, Rooted
  <2>3. ASSUME NEW v \in Clips, ~clipMixed, Quiet(clipCalls) PROVE shown[v] = counters[v]
    <3>1. \A q \in Requests : clipCalls[q].at = "idle"
      BY <2>3 DEF Quiet, Idle
    <3>2. /\ shown[v].likes = counters[v].likes /\ shown[v].views = counters[v].views
          /\ shown[v].comments = counters[v].comments
      BY <2>3, <3>1 DEF ReelsInv, LoneReels, Watched
    <3>3. \A x, y \in Numbers : (x.likes = y.likes /\ x.views = y.views /\ x.comments = y.comments)
                                => x = y
      BY DEF Numbers
    <3> QED
      BY <3>2, <3>3 DEF ReelsInv, ReelsTyped
  <2> QED
    BY <2>1, <2>2, <2>3 DEF ReelsInv, ReelsTyped, LikesAgree, ViewsAgree, LoneReels,
       CommentsAgree, ReelNumbersAreRows
<1> QED
  BY <1>1, ReelsInitInv, ReelsNextInv, PTL DEF ReelsSpec

(***************************************************************************)
(* The desk (Desk)                                                         *)
(***************************************************************************)
AppRows == [user : Users, status : {"PENDING", "APPROVED", "REJECTED"}]
Decisions == [at : {"approve", "approved", "reject", "unbadge", "reopen"},
              id : Nat, user : Users]
DeskCalls ==
    {Idle}
    \cup [at : {"thread"}, user : Users, side : Sides]
    \cup [at : {"write"}, user : Users, side : Sides, copy : ThreadRows \cup {None}]
    \cup [at : {"read"}, user : Users, side : Sides, stamp : Nat]
    \cup [at : {"submit", "openThread"}, user : Users]
    \cup Decisions
Deciding == {"approve", "approved", "reject", "unbadge", "reopen"}

DeskTyped ==
    /\ DeskTypeOK
    /\ threads \in [Users -> ThreadRows \cup {None}]
    /\ filed \in Nat
    /\ applications = [k \in DOMAIN applications |-> applications[k]]
    /\ \A k \in DOMAIN applications : applications[k] \in AppRows
    /\ readAlone \in [Users \X Sides -> BOOLEAN]
    /\ badgeMixed \in [Users -> BOOLEAN]
    /\ deskCalls \in [Requests -> DeskCalls]

(* Nothing is written without a thread, and nobody has read what is not    *)
(* written yet.                                                            *)
Threaded == \A u \in Users :
    /\ threads[u] = None => letters[u] = <<>>
    /\ threads[u] # None => \A s \in Sides : threads[u].readAt[s] <= Len(letters[u])

(* What a request found stands: threads and applications are never deleted. *)
DeskFinds == \A r \in Requests :
    /\ deskCalls[r].at \in {"thread", "write"} /\ deskCalls[r].side = "desk" =>
          threads[deskCalls[r].user] # None
    /\ deskCalls[r].at = "write" =>
          /\ deskCalls[r].copy # None => threads[deskCalls[r].user] # None
          /\ deskCalls[r].side = "desk" => deskCalls[r].copy # None
    /\ deskCalls[r].at = "read" =>
          /\ threads[deskCalls[r].user] # None
          /\ deskCalls[r].stamp <= Len(letters[deskCalls[r].user])
    /\ deskCalls[r].at \in Deciding =>
          /\ deskCalls[r].id \in DOMAIN applications
          /\ applications[deskCalls[r].id].user = deskCalls[r].user

(* One request about a person is in flight at most. *)
OnlyOne(u) == \A r, q \in Requests :
    ( /\ deskCalls[r] # Idle /\ deskCalls[r].user = u
      /\ deskCalls[q] # Idle /\ deskCalls[q].user = u ) => r = q

Tallied(u, s) == threads[u] # None => threads[u].unread[s] = Cardinality(Unseen(u, s))

(* Since a side read alone, its count is right, or it is reading now.      *)
ReadOK(u, s) == readAlone[<<u, s>>] =>
    /\ OnlyOne(u)
    /\ \/ Tallied(u, s)
       \/ \E r \in Requests : /\ deskCalls[r].at = "read" /\ deskCalls[r].user = u
                              /\ deskCalls[r].side = s
    /\ \A r \in Requests : deskCalls[r].at = "read" /\ deskCalls[r].user = u =>
          deskCalls[r].stamp = Len(letters[u])
    /\ \A r \in Requests :
          deskCalls[r].at = "write" /\ deskCalls[r].user = u /\ deskCalls[r].copy # None =>
             deskCalls[r].copy.unread = threads[u].unread

WrittenTo(u) ==
    \/ \E i \in DOMAIN letters[u] : letters[u][i] = "desk"
    \/ \E r \in Requests :
          /\ deskCalls[r].user = u
          /\ \/ deskCalls[r].at = "openThread"
             \/ deskCalls[r].at \in {"thread", "write"} /\ deskCalls[r].side = "desk"

(* While no decisions about a person overlapped, what one has found is     *)
(* still so.                                                               *)
BadgeOK(u) == badgeMixed[u] = FALSE =>
    /\ OnlyOne(u)
    /\ badge[u] = TRUE =>
          \/ OfPerson(u, {"APPROVED"}) # {}
          \/ \E r \in Requests : deskCalls[r].at = "approved" /\ deskCalls[r].user = u
    /\ OfPerson(u, {"REJECTED"}) # {} => WrittenTo(u)
    /\ \A r \in Requests : deskCalls[r].at \in Deciding /\ deskCalls[r].user = u =>
          /\ deskCalls[r].at \in {"approve", "approved", "reject"} =>
                applications[deskCalls[r].id].status = "PENDING"
          /\ deskCalls[r].at = "unbadge" => applications[deskCalls[r].id].status = "APPROVED"
          /\ deskCalls[r].at = "reopen" =>
                badge[u] = FALSE \/ applications[deskCalls[r].id].status = "REJECTED"

DeskInv == /\ DeskTyped /\ Threaded /\ DeskFinds
           /\ \A u \in Users : BadgeOK(u) /\ \A s \in Sides : ReadOK(u, s)

-----------------------------------------------------------------------------
(* In the beginning nobody wrote, applied or wears a badge.                *)
LEMMA DeskInitInv == DeskInit => DeskInv
<1> SUFFICES ASSUME DeskInit PROVE DeskInv
  OBVIOUS
<1>1. DeskTyped
  <2>1. letters \in [Users -> Seq(Sides)]
    BY DEF DeskInit
  <2> QED
    BY <2>1 DEF DeskInit, DeskTyped, DeskTypeOK, DeskCalls
<1>2. Threaded /\ DeskFinds
  BY DEF DeskInit, Threaded, DeskFinds, Idle, Deciding
<1>0. \A r \in Requests : deskCalls[r] = Idle /\ deskCalls[r].at = "idle"
  BY DEF DeskInit, Idle
<1>3. \A u \in Users : BadgeOK(u)
  <2>1. \A u \in Users : OnlyOne(u)
    BY <1>0 DEF OnlyOne
  <2>2. \A u \in Users : \A st : OfPerson(u, st) = {}
    BY DEF DeskInit, OfPerson
  <2>3. \A u \in Users : badge[u] = FALSE
    BY DEF DeskInit
  <2> QED
    BY <1>0, <2>1, <2>2, <2>3 DEF BadgeOK, Deciding
<1>4. \A u \in Users, s \in Sides : ReadOK(u, s)
  <2>1. \A u \in Users : OnlyOne(u)
    BY <1>0 DEF OnlyOne
  <2>2. \A u \in Users, s \in Sides : Tallied(u, s)
    BY DEF DeskInit, Tallied
  <2> QED
    BY <1>0, <2>1, <2>2 DEF ReadOK
<1> QED
  BY <1>1, <1>2, <1>3, <1>4 DEF DeskInv

(* What a request at the desk holds at each of its awaits.                 *)
LEMMA DeskCallType ==
    ASSUME DeskInv, NEW r \in Requests
    PROVE  /\ deskCalls[r] # Idle => deskCalls[r].user \in Users /\ deskCalls[r].at # "idle"
           /\ deskCalls[r].at \in {"thread", "write", "read"} => deskCalls[r].side \in Sides
           /\ deskCalls[r].at = "write" => deskCalls[r].copy \in ThreadRows \cup {None}
           /\ deskCalls[r].at = "read" => deskCalls[r].stamp \in Nat
           /\ deskCalls[r].at \in Deciding =>
                 deskCalls[r].id \in Nat /\ deskCalls[r] \in Decisions
BY DEF DeskInv, DeskTyped, DeskCalls, Decisions, Deciding, Idle

(* A request moves on and the others stay where they are.                  *)
LEMMA DeskGoesTo ==
    ASSUME DeskInv, NEW r \in Requests, NEW c \in DeskCalls, DeskGoes(r, c)
    PROVE  /\ deskCalls' \in [Requests -> DeskCalls]
           /\ \A q \in Requests : deskCalls'[q] = IF q = r THEN c ELSE deskCalls[q]
BY DEF DeskInv, DeskTyped, DeskGoes

(* What a request about one person does leaves every other as it was.      *)
LEMMA Elsewhere ==
    ASSUME DeskInv, NEW r \in Requests, NEW u \in Users, NEW c \in DeskCalls, DeskGoes(r, c),
           deskCalls[r] # Idle => deskCalls[r].user = u,
           c # Idle => c.user = u,
           \A w \in Users : w # u =>
              /\ threads'[w] = threads[w] /\ letters'[w] = letters[w]
              /\ badge'[w] = badge[w] /\ badgeMixed'[w] = badgeMixed[w]
              /\ \A s \in Sides : readAlone'[<<w, s>>] = readAlone[<<w, s>>],
           DOMAIN applications \subseteq DOMAIN applications',
           \A k \in DOMAIN applications' :
              IF k \in DOMAIN applications
              THEN applications'[k] = applications[k] \/ applications[k].user = u
              ELSE applications'[k].user = u,
           \A k \in DOMAIN applications : applications'[k].user = applications[k].user
    PROVE  \A w \in Users : w # u => BadgeOK(w)' /\ \A s \in Sides : ReadOK(w, s)'
<1> SUFFICES ASSUME NEW w \in Users, w # u PROVE BadgeOK(w)' /\ \A s \in Sides : ReadOK(w, s)'
  OBVIOUS
<1>1. \A q \in Requests : deskCalls'[q] = IF q = r THEN c ELSE deskCalls[q]
  BY DeskGoesTo
<1>2. /\ deskCalls[r].at # "idle" => deskCalls[r].user # w
      /\ deskCalls'[r].at # "idle" => deskCalls'[r].user # w
      /\ \A q \in Requests : deskCalls[q] # Idle <=> deskCalls[q].at # "idle"
      /\ \A q \in Requests : deskCalls'[q] # Idle <=> deskCalls'[q].at # "idle"
  <2>1. \A d \in DeskCalls : d # Idle <=> d.at # "idle"
    BY DEF DeskCalls, Decisions, Idle
  <2>2. \A q \in Requests : deskCalls[q] \in DeskCalls
    BY DEF DeskInv, DeskTyped
  <2> QED
    BY <1>1, <2>1, <2>2
<1>3. \A q \in Requests :
        \/ deskCalls'[q] = deskCalls[q]
        \/ /\ deskCalls[q].at = "idle" \/ deskCalls[q].user # w
           /\ deskCalls'[q].at = "idle" \/ deskCalls'[q].user # w
  BY <1>1, <1>2
<1>4. \A st : OfPerson(w, st)' = OfPerson(w, st)
  BY DEF OfPerson
<1>5. OnlyOne(w)' <=> OnlyOne(w)
  BY <1>2, <1>3 DEF OnlyOne
<1>6. WrittenTo(w) => WrittenTo(w)'
  BY <1>3 DEF WrittenTo
<1>7. BadgeOK(w)'
  <2> SUFFICES ASSUME badgeMixed'[w] = FALSE
               PROVE  (/\ OnlyOne(w)
                       /\ badge[w] = TRUE =>
                             \/ OfPerson(w, {"APPROVED"}) # {}
                             \/ \E q \in Requests : /\ deskCalls[q].at = "approved"
                                                    /\ deskCalls[q].user = w
                       /\ OfPerson(w, {"REJECTED"}) # {} => WrittenTo(w)
                       /\ \A q \in Requests :
                             deskCalls[q].at \in Deciding /\ deskCalls[q].user = w =>
                          /\ deskCalls[q].at \in {"approve", "approved", "reject"} =>
                                applications[deskCalls[q].id].status = "PENDING"
                          /\ deskCalls[q].at = "unbadge" =>
                                applications[deskCalls[q].id].status = "APPROVED"
                          /\ deskCalls[q].at = "reopen" =>
                                \/ badge[w] = FALSE
                                \/ applications[deskCalls[q].id].status = "REJECTED")'
    BY DEF BadgeOK
  <2>1. badgeMixed[w] = FALSE /\ badge'[w] = badge[w] /\ BadgeOK(w)
    BY DEF DeskInv
  <2>2. ASSUME NEW q \in Requests, deskCalls'[q].at \in Deciding, deskCalls'[q].user = w
        PROVE  /\ deskCalls'[q] = deskCalls[q]
               /\ applications'[deskCalls[q].id] = applications[deskCalls[q].id]
    <3>1. deskCalls'[q] = deskCalls[q]
      BY <1>3, <2>2 DEF Deciding
    <3>2. PICK k \in DOMAIN applications : k = deskCalls[q].id /\ applications[k].user = w
      BY <2>2, <3>1 DEF DeskInv, DeskFinds
    <3> QED
      BY <3>1, <3>2
  <2>3. \A q \in Requests : deskCalls[q].at = "approved" /\ deskCalls[q].user = w =>
          deskCalls'[q] = deskCalls[q]
    BY <1>3
  <2> QED
    BY <1>4, <1>5, <1>6, <2>1, <2>2, <2>3 DEF BadgeOK
<1>8. ASSUME NEW s \in Sides PROVE ReadOK(w, s)'
  <2> SUFFICES ASSUME readAlone'[<<w, s>>]
               PROVE  (/\ OnlyOne(w)
                       /\ \/ Tallied(w, s)
                          \/ \E q \in Requests :
                                /\ deskCalls[q].at = "read" /\ deskCalls[q].user = w
                                /\ deskCalls[q].side = s
                       /\ \A q \in Requests :
                             deskCalls[q].at = "read" /\ deskCalls[q].user = w =>
                             deskCalls[q].stamp = Len(letters[w])
                       /\ \A q \in Requests :
                             deskCalls[q].at = "write" /\ deskCalls[q].user = w
                                /\ deskCalls[q].copy # None =>
                             deskCalls[q].copy.unread = threads[w].unread)'
    BY DEF ReadOK
  <2>1. readAlone[<<w, s>>] /\ ReadOK(w, s)
    BY DEF DeskInv
  <2>2. Tallied(w, s)' <=> Tallied(w, s)
    <3>1. threads'[w] = threads[w] /\ letters'[w] = letters[w]
      OBVIOUS
    <3>2. Unseen(w, s)' = Unseen(w, s)
      BY <3>1 DEF Unseen
    <3> QED
      BY <3>1, <3>2 DEF Tallied
  <2>3. \A q \in Requests : deskCalls[q].at = "read" /\ deskCalls[q].user = w =>
          deskCalls'[q] = deskCalls[q]
    BY <1>3
  <2>4. \A q \in Requests : deskCalls'[q].at \in {"read", "write"} /\ deskCalls'[q].user = w =>
          deskCalls'[q] = deskCalls[q]
    BY <1>3
  <2> QED
    BY <1>5, <2>1, <2>2, <2>3, <2>4 DEF ReadOK
<1> QED
  BY <1>7, <1>8

(* A request about a person arrives.                                       *)
LEMMA ComesInv ==
    ASSUME DeskInv, NEW r \in Requests, NEW u \in Users, NEW c \in DeskCalls,
           c.at \in {"thread", "read", "submit", "approve", "reject", "unbadge", "reopen"},
           c.user = u, Comes(r, u, c),
           c.at = "thread" /\ c.side = "desk" => threads[u] # None,
           c.at = "read" => threads[u] # None /\ c.stamp = Len(letters[u]),
           c.at \in Deciding => c.id \in DOMAIN applications /\ applications[c.id].user = u,
           c.at \in {"approve", "reject"} => applications[c.id].status = "PENDING",
           c.at = "unbadge" => applications[c.id].status = "APPROVED",
           c.at = "reopen" => applications[c.id].status = "REJECTED"
    PROVE  DeskInv'
<1>1. PICK alone \in BOOLEAN : alone = Alone(deskCalls, r)
  BY DEF Alone
<1>2. /\ deskCalls[r] = Idle /\ DeskGoes(r, c)
      /\ readAlone' = [x \in Users \X Sides |->
            IF x[1] # u THEN readAlone[x]
            ELSE IF c.at = "read" /\ x[2] = c.side THEN alone
            ELSE readAlone[x] /\ alone]
      /\ badgeMixed' = [badgeMixed EXCEPT ![u] = @ \/ ~alone]
      /\ UNCHANGED <<threads, letters, applications, filed, badge>>
  BY <1>1 DEF Comes, support, files
<1>3. /\ deskCalls' \in [Requests -> DeskCalls]
      /\ \A q \in Requests : deskCalls'[q] = IF q = r THEN c ELSE deskCalls[q]
  BY <1>2, DeskGoesTo
<1>4. alone => \A q \in Requests : q # r => deskCalls[q] = Idle /\ deskCalls'[q] = Idle
  BY <1>1, <1>3 DEF Alone
<1>5. /\ readAlone' \in [Users \X Sides -> BOOLEAN]
      /\ \A w \in Users, s \in Sides : readAlone'[<<w, s>>] =
           IF w # u THEN readAlone[<<w, s>>]
           ELSE IF c.at = "read" /\ s = c.side THEN alone
           ELSE readAlone[<<w, s>>] /\ alone
  BY <1>2 DEF DeskInv, DeskTyped
<1>6. /\ badgeMixed' \in [Users -> BOOLEAN]
      /\ \A w \in Users : badgeMixed'[w] = IF w = u THEN badgeMixed[w] \/ ~alone ELSE badgeMixed[w]
  BY <1>2 DEF DeskInv, DeskTyped
<1>7. DeskTyped'
  BY <1>2, <1>3, <1>5, <1>6 DEF DeskInv, DeskTyped, DeskTypeOK
<1>8. Threaded'
  BY <1>2 DEF DeskInv, Threaded
<1>9. DeskFinds'
  <2>1. c.at = "read" => c.stamp <= Len(letters[u])
    BY DEF DeskInv, DeskTyped, DeskTypeOK
  <2> QED
    BY <1>2, <1>3, <2>1 DEF DeskInv, DeskFinds, Deciding
<1>10. \A w \in Users : w # u => BadgeOK(w)' /\ \A s \in Sides : ReadOK(w, s)'
  <2>1. \A w \in Users : w # u =>
          /\ badgeMixed'[w] = badgeMixed[w]
          /\ \A s \in Sides : readAlone'[<<w, s>>] = readAlone[<<w, s>>]
    BY <1>5, <1>6
  <2> QED
    BY <1>2, <2>1, Elsewhere
<1>11. alone => OnlyOne(u)'
  BY <1>4 DEF OnlyOne
<1>12. BadgeOK(u)'
  <2> SUFFICES ASSUME badgeMixed'[u] = FALSE PROVE BadgeOK(u)'
    BY DEF BadgeOK
  <2>1. alone /\ badgeMixed[u] = FALSE
    BY <1>1, <1>6 DEF DeskInv, DeskTyped
  <2>2. \A q \in Requests : deskCalls[q].at = "idle"
    BY <1>2, <1>4, <2>1 DEF Idle
  <2>3. /\ badge[u] = TRUE => OfPerson(u, {"APPROVED"}) # {}
        /\ OfPerson(u, {"REJECTED"}) # {} => \E i \in DOMAIN letters[u] : letters[u][i] = "desk"
    BY <2>1, <2>2 DEF DeskInv, BadgeOK, WrittenTo
  <2>4. \A q \in Requests : q # r => deskCalls'[q].at = "idle"
    BY <1>4, <2>1 DEF Idle
  <2>5. WrittenTo(u)' \/ OfPerson(u, {"REJECTED"})' = {}
    BY <1>2, <2>3 DEF WrittenTo, OfPerson
  <2>6. badge'[u] = TRUE => OfPerson(u, {"APPROVED"})' # {}
    BY <1>2, <2>3 DEF OfPerson
  <2>7. \A q \in Requests : deskCalls'[q].at \in Deciding =>
          /\ deskCalls'[q] = c
          /\ c.at \in {"approve", "reject", "unbadge", "reopen"}
    BY <1>3, <2>4 DEF Deciding
  <2>8. applications' = applications
    BY <1>2
  <2> QED
    BY <1>11, <2>1, <2>5, <2>6, <2>7, <2>8 DEF BadgeOK
<1>13. ASSUME NEW s \in Sides PROVE ReadOK(u, s)'
  <2> SUFFICES ASSUME readAlone'[<<u, s>>] PROVE ReadOK(u, s)'
    BY DEF ReadOK
  <2>1. alone
    BY <1>5
  <2>2. \A q \in Requests : deskCalls[q].at = "idle"
    BY <1>2, <1>4, <2>1 DEF Idle
  <2>3. \A q \in Requests : /\ deskCalls'[q].at # "write"
                            /\ deskCalls'[q].at = "read" => deskCalls'[q].stamp = Len(letters'[u])
    BY <1>2, <1>3, <2>2
  <2>4. CASE c.at = "read" /\ s = c.side
    <3>1. /\ deskCalls'[r].at = "read" /\ deskCalls'[r].user = u /\ deskCalls'[r].side = s
          /\ deskCalls'[r].stamp = Len(letters'[u])
      BY <1>2, <1>3, <2>4
    <3> QED
      BY <1>11, <2>1, <2>3, <3>1 DEF ReadOK
  <2>5. CASE ~(c.at = "read" /\ s = c.side)
    <3>1. readAlone[<<u, s>>]
      BY <1>5, <2>5
    <3>2. Tallied(u, s)
      BY <2>2, <3>1 DEF DeskInv, ReadOK
    <3>3. Tallied(u, s)'
      BY <1>2, <3>2 DEF Tallied, Unseen
    <3> QED
      BY <1>11, <2>1, <2>3, <3>3 DEF ReadOK
  <2> QED
    BY <2>4, <2>5
<1> QED
  BY <1>7, <1>8, <1>9, <1>10, <1>12, <1>13 DEF DeskInv

(* A request goes on.                                                      *)
LEMMA DeskServes ==
    ASSUME DeskInv, NEW r \in Requests, deskCalls[r].at # "idle",
           NEW u \in Users, u = deskCalls[r].user,
           NEW c \in DeskCalls, c # Idle => c.user = u, DeskGoes(r, c)
    PROVE  /\ deskCalls[r] # Idle
           /\ deskCalls' \in [Requests -> DeskCalls]
           /\ \A q \in Requests : deskCalls'[q] = IF q = r THEN c ELSE deskCalls[q]
           /\ OnlyOne(u) =>
                 /\ OnlyOne(u)'
                 /\ \A q \in Requests :
                       q # r => deskCalls[q].at = "idle" \/ deskCalls[q].user # u
<1>1. deskCalls[r] # Idle
  BY DEF Idle
<1>2. /\ deskCalls' \in [Requests -> DeskCalls]
      /\ \A q \in Requests : deskCalls'[q] = IF q = r THEN c ELSE deskCalls[q]
  BY DeskGoesTo
<1>3. \A q \in Requests : deskCalls[q] = Idle => deskCalls[q].at = "idle"
  BY DEF Idle
<1> QED
  BY <1>1, <1>2, <1>3 DEF OnlyOne

(* What is no message and no read leaves the counts right.                 *)
LEMMA KeepsCounts ==
    ASSUME DeskInv, NEW r \in Requests, deskCalls[r].at \notin {"idle", "read"},
           NEW u \in Users, u = deskCalls[r].user,
           NEW c \in DeskCalls, c # Idle => c.user = u, DeskGoes(r, c),
           c.at # "read",
           c.at = "write" /\ c.copy # None => c.copy.unread = threads[u].unread,
           threads' = threads, letters' = letters, readAlone' = readAlone
    PROVE  \A s \in Sides : ReadOK(u, s)'
<1> SUFFICES ASSUME NEW s \in Sides, readAlone[<<u, s>>] PROVE ReadOK(u, s)'
  BY DEF ReadOK
<1>1. ReadOK(u, s)
  BY DEF DeskInv
<1>2. /\ OnlyOne(u)' /\ deskCalls[r] # Idle
      /\ \A q \in Requests : deskCalls'[q] = IF q = r THEN c ELSE deskCalls[q]
  BY <1>1, DeskServes DEF ReadOK
<1>3. Tallied(u, s)' <=> Tallied(u, s)
  BY DEF Tallied, Unseen
<1> QED
  BY <1>1, <1>2, <1>3 DEF ReadOK

(* What is no decision leaves the badges right.                            *)
LEMMA KeepsBadges ==
    ASSUME DeskInv, NEW r \in Requests, deskCalls[r].at \notin Deciding \cup {"idle"},
           NEW u \in Users, u = deskCalls[r].user,
           NEW c \in DeskCalls, c # Idle => c.user = u, DeskGoes(r, c), c.at \notin Deciding,
           applications' = applications, badge' = badge, badgeMixed' = badgeMixed,
           WrittenTo(u) => WrittenTo(u)'
    PROVE  BadgeOK(u)'
<1> SUFFICES ASSUME badgeMixed[u] = FALSE PROVE BadgeOK(u)'
  BY DEF BadgeOK
<1>1. BadgeOK(u)
  BY DEF DeskInv
<1>2. /\ OnlyOne(u)'
      /\ \A q \in Requests : deskCalls'[q] = IF q = r THEN c ELSE deskCalls[q]
  BY <1>1, DeskServes DEF BadgeOK
<1>3. \A st : OfPerson(u, st)' = OfPerson(u, st)
  BY DEF OfPerson
<1>4. "approved" \in Deciding
  BY DEF Deciding
<1> QED
  BY <1>1, <1>2, <1>3, <1>4 DEF BadgeOK

(* A message begins by reading the thread it will save again, or by        *)
(* opening one.                                                            *)
LEMMA ReadThreadInv ==
    ASSUME DeskInv, NEW r \in Requests, ReadThread(r)
    PROVE  DeskInv'
<1>1. PICK u \in Users, side \in Sides : u = deskCalls[r].user /\ side = deskCalls[r].side
  BY DeskCallType DEF ReadThread, Idle
<1>2. PICK c \in DeskCalls :
        c = [at |-> "write", user |-> u, side |-> side, copy |-> threads[u]]
  BY DEF DeskInv, DeskTyped, DeskCalls
<1>3. /\ deskCalls[r].at = "thread" /\ DeskGoes(r, c)
      /\ UNCHANGED <<threads, letters, applications, filed, badge, readAlone, badgeMixed>>
  BY <1>1, <1>2 DEF ReadThread, support, files, deskGhosts
<1>4. c.at = "write" /\ c.user = u /\ c # Idle /\ c.side = side /\ c.copy = threads[u]
  BY <1>2 DEF Idle
<1>5. /\ deskCalls' \in [Requests -> DeskCalls]
      /\ \A q \in Requests : deskCalls'[q] = IF q = r THEN c ELSE deskCalls[q]
  BY <1>3, DeskGoesTo
<1>6. DeskTyped' /\ Threaded'
  BY <1>3, <1>5 DEF DeskInv, DeskTyped, DeskTypeOK, Threaded
<1>7. DeskFinds'
  BY <1>1, <1>3, <1>4, <1>5 DEF DeskInv, DeskFinds, Deciding
<1>8. \A w \in Users : w # u => BadgeOK(w)' /\ \A s \in Sides : ReadOK(w, s)'
  BY <1>1, <1>3, <1>4, Elsewhere
<1>9. \A s \in Sides : ReadOK(u, s)'
  BY <1>1, <1>3, <1>4, KeepsCounts
<1>10. BadgeOK(u)'
  <2>1. WrittenTo(u) => WrittenTo(u)'
    BY <1>1, <1>3, <1>4, <1>5 DEF WrittenTo
  <2> QED
    BY <1>1, <1>3, <1>4, <2>1, KeepsBadges DEF Deciding
<1> QED
  BY <1>6, <1>7, <1>8, <1>9, <1>10 DEF DeskInv

(* What stands after a read stamp, when one message more is written.       *)
Behind(log, stamp, s) == {i \in DOMAIN log : i > stamp /\ log[i] = Other(s)}

(* A message of the other side is one more that the reader has not seen;   *)
(* one of its own is not.                                                  *)
LEMMA OneMoreBehind ==
    ASSUME NEW log \in Seq(Sides), NEW stamp \in Nat, stamp <= Len(log), NEW s \in Sides,
           NEW side \in Sides
    PROVE  /\ IsFiniteSet(Behind(log, stamp, s))
           /\ Behind(Append(log, side), stamp, s) =
                IF side = s THEN Behind(log, stamp, s)
                            ELSE Behind(log, stamp, s) \cup {Len(log) + 1}
           /\ side # s => Cardinality(Behind(Append(log, side), stamp, s))
                            = Cardinality(Behind(log, stamp, s)) + 1
           /\ Behind(Append(log, side), Len(log) + 1, s) = {}
           /\ Behind(log, Len(log), s) = {}
<1>1. Len(log) \in Nat /\ DOMAIN log = 1 .. Len(log)
  OBVIOUS
<1>2. /\ DOMAIN Append(log, side) = 1 .. (Len(log) + 1)
      /\ Append(log, side)[Len(log) + 1] = side
      /\ \A i \in 1 .. Len(log) : Append(log, side)[i] = log[i]
  OBVIOUS
<1>3. IsFiniteSet(Behind(log, stamp, s))
  <2>1. IsFiniteSet(1 .. Len(log))
    BY <1>1, FS_Interval
  <2> QED
    BY <1>1, <2>1, FS_Subset DEF Behind
<1>4. side = Other(s) <=> side # s
  BY DEF Sides, Other
<1>5. Behind(Append(log, side), stamp, s) =
        IF side = s THEN Behind(log, stamp, s) ELSE Behind(log, stamp, s) \cup {Len(log) + 1}
  BY <1>1, <1>2, <1>4 DEF Behind
<1>6. Len(log) + 1 \notin Behind(log, stamp, s)
  BY <1>1 DEF Behind
<1>7. side # s => Cardinality(Behind(Append(log, side), stamp, s))
                    = Cardinality(Behind(log, stamp, s)) + 1
  BY <1>3, <1>5, <1>6, FS_AddElement
<1>8. Behind(Append(log, side), Len(log) + 1, s) = {} /\ Behind(log, Len(log), s) = {}
  BY <1>1, <1>2 DEF Behind
<1> QED
  BY <1>3, <1>5, <1>7, <1>8

(* What a thread says after a message.                                     *)
Told(new, row, copy, side, n) ==
    /\ side = "user" => /\ new.unread["desk"] = copy.unread["desk"] + 1
                        /\ new.unread["user"] = row.unread["user"]
                        /\ new.readAt = row.readAt
    /\ side = "desk" => /\ new.unread["desk"] = 0
                        /\ new.unread["user"] = copy.unread["user"] + 1
                        /\ new.readAt["desk"] = n
                        /\ new.readAt["user"] = row.readAt["user"]

(* What the save of a message makes of the thread's row: the writer's      *)
(* number as it was, the reader's one more than the copy's.                *)
LEMMA AfterMessageRow ==
    ASSUME NEW row \in ThreadRows, NEW copy \in ThreadRows, NEW n \in Nat, NEW side \in Sides,
           NEW new, new = AfterMessage(row, copy, side, n)
    PROVE  new \in ThreadRows /\ Told(new, row, copy, side, n)
<1>1. CASE side = "user"
  <2>1. PICK f : f = [row.unread EXCEPT !["desk"] = copy.unread["desk"] + 1]
    OBVIOUS
  <2>2. /\ f \in [Sides -> Nat] /\ f["desk"] = copy.unread["desk"] + 1
        /\ f["user"] = row.unread["user"]
    BY <2>1 DEF ThreadRows, Sides
  <2>3. new = [status |-> "OPEN", unread |-> f, readAt |-> row.readAt]
    BY <1>1, <2>1 DEF AfterMessage, ThreadRows
  <2> QED
    BY <1>1, <2>2, <2>3 DEF ThreadRows, Told
<1>2. CASE side = "desk"
  <2>1. PICK f : f = [desk |-> 0, user |-> copy.unread["user"] + 1]
    OBVIOUS
  <2>2. f \in [Sides -> Nat] /\ f["desk"] = 0 /\ f["user"] = copy.unread["user"] + 1
    BY <2>1 DEF ThreadRows, Sides
  <2>3. PICK g : g = [row.readAt EXCEPT !["desk"] = n]
    OBVIOUS
  <2>4. g \in [Sides -> Nat] /\ g["desk"] = n /\ g["user"] = row.readAt["user"]
    BY <2>3 DEF ThreadRows, Sides
  <2>5. new = [status |-> row.status, unread |-> f, readAt |-> g]
    BY <1>2, <2>1, <2>3 DEF AfterMessage, ThreadRows
  <2> QED
    BY <1>2, <2>2, <2>4, <2>5 DEF ThreadRows, Told
<1> QED
  BY <1>1, <1>2 DEF Sides

(* A message is written, and the thread as the copy says it.               *)
LEMMA WriteMessageInv ==
    ASSUME DeskInv, NEW r \in Requests, WriteMessage(r)
    PROVE  DeskInv'
<1>0. /\ deskCalls[r].user \in Users /\ deskCalls[r].side \in Sides
      /\ deskCalls[r].copy \in ThreadRows \cup {None}
  <2>1. deskCalls[r].at = "write" /\ deskCalls[r] # Idle
    BY DEF WriteMessage, Idle
  <2> QED
    BY <2>1, DeskCallType
<1>1. PICK u \in Users, side \in Sides, copy \in ThreadRows \cup {None} :
        u = deskCalls[r].user /\ side = deskCalls[r].side /\ copy = deskCalls[r].copy
  BY <1>0
<1>2. PICK log \in Seq(Sides) : log = letters[u]
  BY DEF DeskInv, DeskTyped, DeskTypeOK
<1>3. PICK n \in Nat : n = Len(log) + 1
  BY <1>2
<1>4. NewThread \in ThreadRows
  BY DEF NewThread, ThreadRows
<1>5. PICK from \in ThreadRows : from = IF copy = None THEN NewThread ELSE copy
  BY <1>1, <1>4
<1>6. PICK row \in ThreadRows : row = IF threads[u] = None THEN NewThread ELSE threads[u]
  BY <1>4 DEF DeskInv, DeskTyped
<1>7. PICK new : new = AfterMessage(row, from, side, n)
  OBVIOUS
<1>8. /\ deskCalls[r].at = "write" /\ DeskGoes(r, Idle) /\ Idle \in DeskCalls
      /\ IF copy = None /\ threads[u] # None
         THEN UNCHANGED <<threads, letters>>
         ELSE /\ letters' = [letters EXCEPT ![u] = Append(log, side)]
              /\ threads' = [threads EXCEPT ![u] = new]
      /\ UNCHANGED <<applications, filed, badge, readAlone, badgeMixed>>
  BY <1>1, <1>2, <1>3, <1>5, <1>6, <1>7
     DEF WriteMessage, support, files, deskGhosts, DeskCalls
<1>9. /\ deskCalls' \in [Requests -> DeskCalls]
      /\ \A q \in Requests : deskCalls'[q] = IF q = r THEN Idle ELSE deskCalls[q]
  BY <1>8, DeskGoesTo
<1>10. deskCalls[r].at # "idle" /\ Idle.at = "idle"
  BY <1>8 DEF Idle
<1>11. CASE copy = None /\ threads[u] # None
  <2>1. UNCHANGED <<threads, letters>>
    BY <1>8, <1>11
  <2>2. side # "desk"
    BY <1>1, <1>8, <1>11 DEF DeskInv, DeskFinds
  <2>3. DeskTyped' /\ Threaded'
    BY <1>8, <1>9, <2>1 DEF DeskInv, DeskTyped, DeskTypeOK, Threaded
  <2>4. DeskFinds'
    BY <1>8, <1>9, <1>10, <2>1 DEF DeskInv, DeskFinds, Deciding
  <2>5. \A w \in Users : w # u => BadgeOK(w)' /\ \A s \in Sides : ReadOK(w, s)'
    BY <1>1, <1>8, <2>1, Elsewhere
  <2>6. \A s \in Sides : ReadOK(u, s)'
    BY <1>1, <1>8, <1>10, <2>1, KeepsCounts
  <2>7. BadgeOK(u)'
    <3>1. WrittenTo(u) => WrittenTo(u)'
      BY <1>1, <1>8, <1>9, <2>1, <2>2 DEF WrittenTo
    <3> QED
      BY <1>1, <1>8, <1>10, <3>1, KeepsBadges DEF Deciding
  <2> QED
    BY <2>3, <2>4, <2>5, <2>6, <2>7 DEF DeskInv
<1>12. CASE ~(copy = None /\ threads[u] # None)
  <2>1. /\ letters' = [letters EXCEPT ![u] = Append(log, side)]
        /\ threads' = [threads EXCEPT ![u] = new]
    BY <1>8, <1>12
  <2>0. row \in ThreadRows /\ from \in ThreadRows /\ n \in Nat /\ side \in Sides
    BY <1>1, <1>3, <1>5, <1>6
  <2>2. /\ new \in ThreadRows /\ new # None
        /\ side = "user" => /\ new.unread["desk"] = from.unread["desk"] + 1
                            /\ new.unread["user"] = row.unread["user"]
                            /\ new.readAt = row.readAt
        /\ side = "desk" => /\ new.unread["desk"] = 0
                            /\ new.unread["user"] = from.unread["user"] + 1
                            /\ new.readAt["desk"] = n
                            /\ new.readAt["user"] = row.readAt["user"]
    <3>1. new \in ThreadRows => new # None
      BY DeskNames
    <3>2. new \in ThreadRows /\ Told(new, row, from, side, n)
      BY <1>7, <2>0, AfterMessageRow
    <3> QED
      BY <3>1, <3>2 DEF Told
  <2>3. PICK longer \in Seq(Sides) : longer = Append(log, side)
    <3>1. Append(log, side) \in Seq(Sides)
      BY <1>1, <1>2
    <3> QED
      BY <3>1
  <2>4. /\ letters' \in [Users -> Seq(Sides)] /\ letters'[u] = longer
        /\ threads' \in [Users -> ThreadRows \cup {None}] /\ threads'[u] = new
        /\ \A w \in Users : w # u => letters'[w] = letters[w] /\ threads'[w] = threads[w]
    BY <2>1, <2>2, <2>3 DEF DeskInv, DeskTyped, DeskTypeOK
  <2>5. DeskTyped'
    BY <1>8, <1>9, <2>4 DEF DeskInv, DeskTyped, DeskTypeOK
  <2>6. \A s \in Sides : row.readAt[s] \in Nat /\ row.readAt[s] <= Len(log)
    <3>1. CASE threads[u] = None
      BY <1>2, <1>6, <3>1 DEF NewThread
    <3>2. CASE threads[u] # None
      BY <1>2, <1>6, <3>2 DEF DeskInv, Threaded, ThreadRows
    <3> QED
      BY <3>1, <3>2
  <2>7. Len(longer) = n /\ Len(log) \in Nat
    BY <1>3, <2>3
  <2>8. Threaded'
    <3>1. \A s \in Sides : new.readAt[s] <= n
      BY <1>3, <2>2, <2>6, <2>7 DEF Sides
    <3> QED
      BY <2>2, <2>4, <2>7, <3>1 DEF DeskInv, Threaded
  <2>9. DeskFinds'
    <3>1. \A q \in Requests : deskCalls'[q].at # "idle" => deskCalls'[q] = deskCalls[q]
      BY <1>9, <1>10
    <3>2. \A w \in Users : /\ threads[w] # None => threads'[w] # None
                           /\ \A k \in Nat : k <= Len(letters[w]) => k <= Len(letters'[w])
      BY <1>2, <1>3, <2>2, <2>4, <2>7
    <3>3. \A q \in Requests : deskCalls[q].at = "read" => deskCalls[q].stamp \in Nat
      BY DeskCallType
    <3>4. \A q \in Requests : deskCalls[q].at # "idle" => deskCalls[q].user \in Users
      BY DeskCallType DEF Idle
    <3> QED
      BY <1>8, <3>1, <3>2, <3>3, <3>4 DEF DeskInv, DeskFinds, Deciding
  <2>10. \A w \in Users : w # u => BadgeOK(w)' /\ \A s \in Sides : ReadOK(w, s)'
    BY <1>1, <1>8, <2>4, Elsewhere
  <2>11. BadgeOK(u)'
    <3>1. WrittenTo(u) => WrittenTo(u)'
      <4>1. CASE side = "desk"
        <5>1. n \in DOMAIN longer /\ longer[n] = "desk"
          BY <1>3, <2>3, <4>1
        <5> QED
          BY <2>4, <5>1 DEF WrittenTo
      <4>2. CASE side # "desk"
        <5>1. \A i \in DOMAIN log : i \in DOMAIN longer /\ longer[i] = log[i]
          BY <2>3
        <5> QED
          BY <1>1, <1>2, <1>8, <1>9, <2>4, <4>2, <5>1 DEF WrittenTo
      <4> QED
        BY <4>1, <4>2
    <3> QED
      BY <1>1, <1>8, <1>10, <3>1, KeepsBadges DEF Deciding
  <2>12. ASSUME NEW s \in Sides PROVE ReadOK(u, s)'
    <3> SUFFICES ASSUME readAlone[<<u, s>>] PROVE ReadOK(u, s)'
      BY <1>8 DEF ReadOK
    <3>1. ReadOK(u, s) /\ readAlone[<<u, s>>]
      BY DEF DeskInv
    <3>2. /\ OnlyOne(u)'
          /\ \A q \in Requests : q # r => deskCalls[q].at = "idle" \/ deskCalls[q].user # u
      BY <1>1, <1>8, <1>10, <3>1, DeskServes DEF ReadOK
    <3>3. from.unread = row.unread
      BY <1>1, <1>5, <1>6, <1>8, <1>12, <3>1 DEF ReadOK, DeskInv, DeskFinds
    <3>4. row.unread[s] = Cardinality(Behind(log, row.readAt[s], s))
      <4>1. CASE threads[u] = None
        <5>1. log = <<>> /\ row = NewThread
          BY <1>2, <1>6, <4>1 DEF DeskInv, Threaded
        <5>2. Behind(log, row.readAt[s], s) = {}
          BY <5>1 DEF Behind
        <5> QED
          BY <5>1, <5>2, FS_EmptySet DEF NewThread
      <4>2. CASE threads[u] # None
        <5>1. Tallied(u, s)
          BY <1>8, <3>1, <3>2 DEF ReadOK
        <5> QED
          BY <1>2, <1>6, <4>2, <5>1 DEF Tallied, Unseen, Behind
      <4> QED
        BY <4>1, <4>2
    <3>5. new.unread[s] = Cardinality(Behind(longer, new.readAt[s], s))
      <4>1. /\ side = s => Behind(longer, row.readAt[s], s) = Behind(log, row.readAt[s], s)
            /\ side # s => Cardinality(Behind(longer, row.readAt[s], s))
                             = Cardinality(Behind(log, row.readAt[s], s)) + 1
            /\ Behind(longer, n, s) = {}
        BY <1>3, <2>3, <2>6, OneMoreBehind
      <4>2. Cardinality({}) = 0
        BY FS_EmptySet
      <4>3. CASE side = "user" /\ s = "user"
        BY <2>2, <3>4, <4>1, <4>3
      <4>4. CASE side = "user" /\ s = "desk"
        BY <2>2, <3>3, <3>4, <4>1, <4>4
      <4>5. CASE side = "desk" /\ s = "user"
        BY <2>2, <3>3, <3>4, <4>1, <4>5
      <4>6. CASE side = "desk" /\ s = "desk"
        BY <2>2, <4>1, <4>2, <4>6
      <4> QED
        BY <4>3, <4>4, <4>5, <4>6 DEF Sides
    <3>6. Tallied(u, s)'
      BY <2>4, <3>5 DEF Tallied, Unseen, Behind
    <3>7. \A q \in Requests : deskCalls'[q].at = "idle" \/ deskCalls'[q].user # u
      BY <1>9, <1>10, <3>2
    <3> QED
      BY <3>2, <3>6, <3>7 DEF ReadOK
  <2> QED
    BY <2>5, <2>8, <2>9, <2>10, <2>11, <2>12 DEF DeskInv
<1> QED
  BY <1>11, <1>12

(* A side reads up to the stamp it took.                                   *)
LEMMA MarkReadInv ==
    ASSUME DeskInv, NEW r \in Requests, MarkRead(r)
    PROVE  DeskInv'
<1>1. PICK u \in Users, side \in Sides, stamp \in Nat :
        u = deskCalls[r].user /\ side = deskCalls[r].side /\ stamp = deskCalls[r].stamp
  BY DeskCallType DEF MarkRead, Idle
<1>2. /\ deskCalls[r].at = "read" /\ DeskGoes(r, Idle) /\ Idle \in DeskCalls
      /\ threads' = [threads EXCEPT ![u] =
            [@ EXCEPT !.unread[side] = 0, !.readAt[side] = stamp]]
      /\ UNCHANGED <<letters, applications, filed, badge, readAlone, badgeMixed>>
  BY <1>1 DEF MarkRead, files, deskGhosts, DeskCalls
<1>3. PICK row \in ThreadRows : row = threads[u]
  BY <1>1, <1>2 DEF DeskInv, DeskTyped, DeskFinds
<1>4. PICK f, g : f = [row.unread EXCEPT ![side] = 0] /\ g = [row.readAt EXCEPT ![side] = stamp]
  OBVIOUS
<1>5. /\ f \in [Sides -> Nat] /\ f[side] = 0 /\ \A s \in Sides : s # side => f[s] = row.unread[s]
      /\ g \in [Sides -> Nat] /\ g[side] = stamp
      /\ \A s \in Sides : s # side => g[s] = row.readAt[s]
  BY <1>3, <1>4 DEF ThreadRows
<1>6. PICK new : new = [status |-> row.status, unread |-> f, readAt |-> g]
  OBVIOUS
<1>7. new \in ThreadRows /\ new.unread = f /\ new.readAt = g /\ new # None
  BY <1>3, <1>5, <1>6, DeskNames DEF ThreadRows
<1>8. threads' = [threads EXCEPT ![u] = new]
  <2>1. [row EXCEPT !.unread[side] = 0, !.readAt[side] = stamp] = new
    <3>1. PICK one : one = [row EXCEPT !.unread[side] = 0]
      OBVIOUS
    <3>2. one = [status |-> row.status, unread |-> f, readAt |-> row.readAt]
      BY <1>3, <1>4, <3>1 DEF ThreadRows
    <3>3. [one EXCEPT !.readAt[side] = stamp] = new
      BY <1>3, <1>4, <1>6, <3>2 DEF ThreadRows
    <3> QED
      BY <3>1, <3>3
  <2> QED
    BY <1>2, <1>3, <2>1
<1>9. /\ threads' \in [Users -> ThreadRows \cup {None}] /\ threads'[u] = new
      /\ \A w \in Users : w # u => threads'[w] = threads[w]
  BY <1>7, <1>8 DEF DeskInv, DeskTyped
<1>10. /\ deskCalls' \in [Requests -> DeskCalls] /\ Idle.at = "idle"
       /\ \A q \in Requests : deskCalls'[q] = IF q = r THEN Idle ELSE deskCalls[q]
  BY <1>2, DeskGoesTo DEF Idle
<1>11. DeskTyped'
  BY <1>2, <1>9, <1>10 DEF DeskInv, DeskTyped, DeskTypeOK
<1>12. stamp <= Len(letters[u])
  BY <1>1, <1>2 DEF DeskInv, DeskFinds
<1>13. Threaded'
  <2>1. \A s \in Sides : new.readAt[s] <= Len(letters[u])
    <3>1. \A s \in Sides : row.readAt[s] <= Len(letters[u])
      BY <1>3, DeskNames DEF DeskInv, Threaded
    <3> QED
      BY <1>5, <1>7, <1>12, <3>1
  <2> QED
    BY <1>2, <1>7, <1>9, <2>1 DEF DeskInv, Threaded
<1>14. DeskFinds'
  <2>1. \A q \in Requests : deskCalls'[q].at # "idle" => deskCalls'[q] = deskCalls[q]
    BY <1>10
  <2>2. \A w \in Users : threads[w] # None => threads'[w] # None
    BY <1>7, <1>9
  <2>3. \A q \in Requests : deskCalls[q].at # "idle" => deskCalls[q].user \in Users
    BY DeskCallType DEF Idle
  <2> QED
    BY <1>2, <2>1, <2>2, <2>3 DEF DeskInv, DeskFinds, Deciding
<1>15. \A w \in Users : w # u => BadgeOK(w)' /\ \A s \in Sides : ReadOK(w, s)'
  BY <1>1, <1>2, <1>9, Elsewhere
<1>16. BadgeOK(u)'
  <2>1. WrittenTo(u) => WrittenTo(u)'
    BY <1>2, <1>10 DEF WrittenTo
  <2> QED
    BY <1>1, <1>2, <1>10, <2>1, KeepsBadges DEF Deciding
<1>17. ASSUME NEW s \in Sides PROVE ReadOK(u, s)'
  <2> SUFFICES ASSUME readAlone[<<u, s>>] PROVE ReadOK(u, s)'
    BY <1>2 DEF ReadOK
  <2>1. ReadOK(u, s) /\ readAlone[<<u, s>>]
    BY DEF DeskInv
  <2>2. /\ OnlyOne(u)' /\ deskCalls[r].at # "idle"
        /\ \A q \in Requests : q # r => deskCalls[q].at = "idle" \/ deskCalls[q].user # u
    BY <1>1, <1>2, <1>10, <2>1, DeskServes DEF ReadOK
  <2>3. Tallied(u, s)'
    <3>1. CASE s = side
      <4>1. stamp = Len(letters[u]) /\ letters[u] \in Seq(Sides)
        BY <1>1, <1>2, <2>1 DEF ReadOK, DeskInv, DeskTyped, DeskTypeOK
      <4>2. {i \in DOMAIN letters[u] : i > stamp /\ letters[u][i] = Other(s)} = {}
        BY <4>1
      <4>3. Unseen(u, s)' = {}
        BY <1>2, <1>5, <1>7, <1>9, <3>1, <4>2 DEF Unseen
      <4> QED
        BY <1>5, <1>7, <1>9, <3>1, <4>3, FS_EmptySet DEF Tallied
    <3>2. CASE s # side
      <4>1. Tallied(u, s)
        BY <1>1, <1>2, <2>1, <2>2, <3>2 DEF ReadOK
      <4>2. Unseen(u, s)' = Unseen(u, s)
        BY <1>2, <1>3, <1>5, <1>7, <1>9, <3>2 DEF Unseen
      <4>3. threads'[u].unread[s] = threads[u].unread[s] /\ threads[u] # None
        BY <1>3, <1>5, <1>7, <1>9, <3>2, DeskNames
      <4> QED
        BY <4>1, <4>2, <4>3 DEF Tallied
    <3> QED
      BY <3>1, <3>2
  <2>4. \A q \in Requests : deskCalls'[q].at = "idle" \/ deskCalls'[q].user # u
    BY <1>10, <2>2
  <2> QED
    BY <2>2, <2>3, <2>4 DEF ReadOK
<1> QED
  BY <1>11, <1>13, <1>14, <1>15, <1>16, <1>17 DEF DeskInv

(* The requests that arrive.                                               *)
LEMMA DeskAsksInv ==
    ASSUME DeskInv, NEW r \in Requests
    PROVE  /\ \A u \in Users, side \in Sides : AskSend(r, u, side) \/ AskRead(r, u, side) => DeskInv'
           /\ \A u \in Users : AskSubmit(r, u) => DeskInv'
           /\ \A k \in DOMAIN applications :
                 \/ AskDecide(r, k, "approve") \/ AskDecide(r, k, "reject")
                 \/ AskReopen(r, k)
                 => DeskInv'
<1>1. ASSUME NEW u \in Users, NEW side \in Sides, AskSend(r, u, side) PROVE DeskInv'
  <2>1. PICK c \in DeskCalls : c = [at |-> "thread", user |-> u, side |-> side]
    BY DEF DeskCalls
  <2>2. /\ c.at = "thread" /\ c.user = u /\ c.side = side
        /\ Comes(r, u, c) /\ (side = "desk" => threads[u] # None)
    BY <1>1, <2>1 DEF AskSend
  <2> QED
    BY <2>2, ComesInv DEF Deciding
<1>2. ASSUME NEW u \in Users, NEW side \in Sides, AskRead(r, u, side) PROVE DeskInv'
  <2>1. Len(letters[u]) \in Nat
    BY DEF DeskInv, DeskTyped, DeskTypeOK
  <2>2. PICK c \in DeskCalls :
          c = [at |-> "read", user |-> u, side |-> side, stamp |-> Len(letters[u])]
    BY <2>1 DEF DeskCalls
  <2>3. /\ c.at = "read" /\ c.user = u /\ c.side = side /\ c.stamp = Len(letters[u])
        /\ Comes(r, u, c) /\ threads[u] # None
    BY <1>2, <2>2 DEF AskRead
  <2> QED
    BY <2>3, ComesInv DEF Deciding
<1>3. ASSUME NEW u \in Users, AskSubmit(r, u) PROVE DeskInv'
  <2>1. PICK c \in DeskCalls : c = [at |-> "submit", user |-> u]
    BY DEF DeskCalls
  <2>2. c.at = "submit" /\ c.user = u /\ Comes(r, u, c)
    BY <1>3, <2>1 DEF AskSubmit
  <2> QED
    BY <2>2, ComesInv DEF Deciding
<1>4. ASSUME NEW k \in DOMAIN applications, NEW at \in {"approve", "reject"}, AskDecide(r, k, at)
      PROVE  DeskInv'
  <2>1. PICK u \in Users : u = applications[k].user
    BY DEF DeskInv, DeskTyped, AppRows
  <2>2. k \in Nat
    BY DEF DeskInv, DeskTyped, DeskTypeOK
  <2>3. PICK c \in DeskCalls : c = [at |-> at, id |-> k, user |-> u]
    BY <2>2 DEF DeskCalls, Decisions
  <2>4. /\ c.at = at /\ c.user = u /\ c.id = k
        /\ Comes(r, u, c) /\ applications[k].status = "PENDING"
    BY <1>4, <2>1, <2>3 DEF AskDecide, OfPerson
  <2> QED
    BY <2>1, <2>4, ComesInv DEF Deciding
<1>5. ASSUME NEW k \in DOMAIN applications, AskReopen(r, k) PROVE DeskInv'
  <2>1. PICK u \in Users : u = applications[k].user
    BY DEF DeskInv, DeskTyped, AppRows
  <2>2. k \in Nat
    BY DEF DeskInv, DeskTyped, DeskTypeOK
  <2>3. PICK at \in {"unbadge", "reopen"} :
          at = IF applications[k].status = "APPROVED" THEN "unbadge" ELSE "reopen"
    OBVIOUS
  <2>4. PICK c \in DeskCalls : c = [at |-> at, id |-> k, user |-> u]
    BY <2>2 DEF DeskCalls, Decisions
  <2>5. c.at = at /\ c.user = u /\ c.id = k /\ Comes(r, u, c)
    BY <1>5, <2>1, <2>3, <2>4 DEF AskReopen
  <2>6. /\ at = "unbadge" => applications[k].status = "APPROVED"
        /\ at = "reopen" => applications[k].status = "REJECTED"
    BY <1>5, <2>3 DEF AskReopen, DeskInv, DeskTyped, AppRows
  <2> QED
    BY <2>1, <2>5, <2>6, ComesInv DEF Deciding
<1> QED
  BY <1>1, <1>2, <1>3, <1>4, <1>5

(* A thread is opened for a reason to be sent through.                     *)
LEMMA OpenThreadInv ==
    ASSUME DeskInv, NEW r \in Requests, OpenThread(r)
    PROVE  DeskInv'
<1>1. PICK u \in Users : u = deskCalls[r].user
  BY DeskCallType DEF OpenThread, Idle
<1>2. PICK c \in DeskCalls : c = [at |-> "thread", user |-> u, side |-> "desk"]
  BY DEF DeskCalls, Sides
<1>3. c.at = "thread" /\ c.user = u /\ c.side = "desk" /\ c # Idle
  BY <1>2 DEF Idle
<1>4. PICK new \in ThreadRows : new = IF threads[u] = None THEN NewThread ELSE threads[u]
  <2>1. NewThread \in ThreadRows
    BY DEF NewThread, ThreadRows
  <2> QED
    BY <2>1 DEF DeskInv, DeskTyped
<1>5. /\ deskCalls[r].at = "openThread" /\ DeskGoes(r, c)
      /\ threads' = [threads EXCEPT ![u] = new]
      /\ UNCHANGED <<letters, applications, filed, badge, readAlone, badgeMixed>>
  BY <1>1, <1>2, <1>4 DEF OpenThread, files, deskGhosts
<1>6. new # None
  BY DeskNames
<1>7. /\ threads' \in [Users -> ThreadRows \cup {None}] /\ threads'[u] = new
      /\ \A w \in Users : w # u => threads'[w] = threads[w]
      /\ \A w \in Users : threads[w] # None => threads'[w] = threads[w]
  BY <1>4, <1>5 DEF DeskInv, DeskTyped
<1>8. /\ deskCalls' \in [Requests -> DeskCalls]
      /\ \A q \in Requests : deskCalls'[q] = IF q = r THEN c ELSE deskCalls[q]
  BY <1>5, DeskGoesTo
<1>9. DeskTyped'
  BY <1>5, <1>7, <1>8 DEF DeskInv, DeskTyped, DeskTypeOK
<1>10. \A s \in Sides : threads[u] = None => new.readAt[s] = 0 /\ new.unread[s] = 0
  BY <1>4 DEF NewThread
<1>11. Threaded'
  <2>1. \A s \in Sides : new.readAt[s] <= Len(letters[u])
    <3>1. CASE threads[u] = None
      BY <1>10, <3>1 DEF DeskInv, Threaded
    <3>2. CASE threads[u] # None
      BY <1>4, <3>2 DEF DeskInv, Threaded
    <3> QED
      BY <3>1, <3>2
  <2> QED
    BY <1>5, <1>6, <1>7, <2>1 DEF DeskInv, Threaded
<1>12. DeskFinds'
  <2>1. \A w \in Users : threads[w] # None => threads'[w] # None
    BY <1>7
  <2>2. \A q \in Requests : deskCalls[q].at # "idle" => deskCalls[q].user \in Users
    BY DeskCallType DEF Idle
  <2>3. \A q \in Requests : q # r => deskCalls'[q] = deskCalls[q]
    BY <1>8
  <2>4. deskCalls'[r] = c /\ threads'[u] # None
    BY <1>6, <1>7, <1>8
  <2> QED
    BY <1>3, <1>5, <2>1, <2>2, <2>3, <2>4 DEF DeskInv, DeskFinds, Deciding
<1>13. \A w \in Users : w # u => BadgeOK(w)' /\ \A s \in Sides : ReadOK(w, s)'
  BY <1>1, <1>3, <1>5, <1>7, Elsewhere
<1>14. BadgeOK(u)'
  <2>1. WrittenTo(u)'
    BY <1>3, <1>8 DEF WrittenTo
  <2> QED
    BY <1>1, <1>3, <1>5, <2>1, KeepsBadges DEF Deciding
<1>15. ASSUME NEW s \in Sides PROVE ReadOK(u, s)'
  <2> SUFFICES ASSUME readAlone[<<u, s>>] PROVE ReadOK(u, s)'
    BY <1>5 DEF ReadOK
  <2>1. ReadOK(u, s) /\ readAlone[<<u, s>>]
    BY DEF DeskInv
  <2>2. /\ OnlyOne(u)' /\ deskCalls[r].at # "idle"
        /\ \A q \in Requests : q # r => deskCalls[q].at = "idle" \/ deskCalls[q].user # u
    BY <1>1, <1>3, <1>5, <2>1, DeskServes DEF ReadOK
  <2>3. Tallied(u, s)'
    <3>1. CASE threads[u] = None
      <4>1. Unseen(u, s)' = {}
        BY <1>5, <3>1 DEF DeskInv, Threaded, Unseen
      <4> QED
        BY <1>7, <1>10, <3>1, <4>1, FS_EmptySet DEF Tallied
    <3>2. CASE threads[u] # None
      <4>1. Tallied(u, s)
        BY <1>5, <2>1, <2>2 DEF ReadOK
      <4>2. threads'[u] = threads[u] /\ letters'[u] = letters[u]
        BY <1>5, <1>7, <3>2
      <4>3. Unseen(u, s)' = Unseen(u, s)
        BY <4>2 DEF Unseen
      <4> QED
        BY <4>1, <4>2, <4>3 DEF Tallied
    <3> QED
      BY <3>1, <3>2
  <2>4. \A q \in Requests : deskCalls'[q].at \in {"idle", "thread"} \/ deskCalls'[q].user # u
    BY <1>3, <1>8, <2>2
  <2> QED
    BY <2>2, <2>3, <2>4 DEF ReadOK
<1> QED
  BY <1>9, <1>11, <1>12, <1>13, <1>14, <1>15 DEF DeskInv

(* The desk closes a thread or opens it again.                             *)
LEMMA SetStatusInv ==
    ASSUME DeskInv, NEW u \in Users, NEW status \in {"OPEN", "CLOSED"}, SetStatus(u, status)
    PROVE  DeskInv'
<1>1. PICK row \in ThreadRows : row = threads[u]
  BY DEF SetStatus, DeskInv, DeskTyped
<1>2. PICK new \in ThreadRows : new = [row EXCEPT !.status = status]
  BY <1>1 DEF ThreadRows
<1>3. new.unread = row.unread /\ new.readAt = row.readAt /\ new # None
  BY <1>1, <1>2, DeskNames DEF ThreadRows
<1>4. threads' = [threads EXCEPT ![u] = new]
  BY <1>1, <1>2 DEF SetStatus
<1>5. UNCHANGED <<letters, applications, filed, badge, deskCalls, readAlone, badgeMixed>>
  BY DEF SetStatus, files, deskGhosts
<1>6. /\ threads' \in [Users -> ThreadRows \cup {None}]
      /\ \A w \in Users : /\ threads'[w] # None <=> threads[w] # None
                          /\ threads[w] # None => /\ threads'[w].unread = threads[w].unread
                                                  /\ threads'[w].readAt = threads[w].readAt
  BY <1>1, <1>3, <1>4 DEF DeskInv, DeskTyped, SetStatus
<1>7. DeskTyped'
  BY <1>5, <1>6 DEF DeskInv, DeskTyped, DeskTypeOK
<1>8. Threaded'
  BY <1>5, <1>6 DEF DeskInv, Threaded
<1>9. DeskFinds'
  <2>1. \A q \in Requests : deskCalls[q].at # "idle" => deskCalls[q].user \in Users
    BY DeskCallType DEF Idle
  <2> QED
    BY <1>5, <1>6, <2>1 DEF DeskInv, DeskFinds, Deciding
<1>10. ASSUME NEW w \in Users PROVE BadgeOK(w)'
  <2>1. BadgeOK(w)
    BY DEF DeskInv
  <2> QED
    BY <1>5, <2>1 DEF BadgeOK, OnlyOne, OfPerson, WrittenTo
<1>11. ASSUME NEW w \in Users, NEW s \in Sides PROVE ReadOK(w, s)'
  <2>1. ReadOK(w, s)
    BY DEF DeskInv
  <2>2. Tallied(w, s) => Tallied(w, s)'
    <3>1. threads[w] # None => Unseen(w, s)' = Unseen(w, s)
      BY <1>5, <1>6 DEF Unseen
    <3> QED
      BY <1>6, <3>1 DEF Tallied
  <2>3. OnlyOne(w) => OnlyOne(w)'
    BY <1>5 DEF OnlyOne
  <2>4. \A q \in Requests : deskCalls[q].at = "write" /\ deskCalls[q].copy # None =>
          threads[deskCalls[q].user] # None
    BY DEF DeskInv, DeskFinds
  <2> QED
    BY <1>5, <1>6, <2>1, <2>2, <2>3, <2>4 DEF ReadOK
<1> QED
  BY <1>7, <1>8, <1>9, <1>10, <1>11 DEF DeskInv

(* An application is filed, unless one waits already.                      *)
LEMMA SaveApplicationInv ==
    ASSUME DeskInv, NEW r \in Requests, SaveApplication(r)
    PROVE  DeskInv'
<1>1. PICK u \in Users : u = deskCalls[r].user
  BY DeskCallType DEF SaveApplication, Idle
<1>2. /\ deskCalls[r].at = "submit" /\ DeskGoes(r, Idle) /\ Idle \in DeskCalls
      /\ UNCHANGED <<threads, letters, badge, readAlone, badgeMixed>>
  BY DEF SaveApplication, support, deskGhosts, DeskCalls
<1>3. PICK row \in AppRows : row = [user |-> u, status |-> "PENDING"]
  BY DEF AppRows
<1>4. row.user = u /\ row.status = "PENDING"
  BY <1>3
<1>5. PICK k \in Nat : k = filed + 1
  BY DEF DeskInv, DeskTyped
<1>6. k \notin DOMAIN applications
  BY <1>5 DEF DeskInv, DeskTyped, DeskTypeOK
<1>7. \/ UNCHANGED <<filed, applications>>
      \/ filed' = k /\ applications' = With(applications, k, row)
  BY <1>1, <1>3, <1>5 DEF SaveApplication
<1>8. /\ DOMAIN applications \subseteq DOMAIN applications'
      /\ \A j \in DOMAIN applications : applications'[j] = applications[j]
      /\ \A j \in DOMAIN applications' : j \notin DOMAIN applications => applications'[j] = row
      /\ applications' = [j \in DOMAIN applications' |-> applications'[j]]
      /\ DOMAIN applications' \subseteq 1 .. filed' /\ filed' \in Nat
  <2>1. CASE UNCHANGED <<filed, applications>>
    BY <2>1 DEF DeskInv, DeskTyped, DeskTypeOK
  <2>2. CASE filed' = k /\ applications' = With(applications, k, row)
    BY <1>5, <1>6, <2>2 DEF DeskInv, DeskTyped, DeskTypeOK, With
  <2> QED
    BY <1>7, <2>1, <2>2
<1>9. /\ deskCalls' \in [Requests -> DeskCalls]
      /\ \A q \in Requests : deskCalls'[q] = IF q = r THEN Idle ELSE deskCalls[q]
  BY <1>2, DeskGoesTo
<1>10. DeskTyped'
  <2>1. \A j \in DOMAIN applications' : applications'[j] \in AppRows
    BY <1>3, <1>8 DEF DeskInv, DeskTyped
  <2> QED
    BY <1>2, <1>8, <1>9, <2>1 DEF DeskInv, DeskTyped, DeskTypeOK
<1>11. Threaded'
  BY <1>2 DEF DeskInv, Threaded
<1>12. Idle.at = "idle"
  BY DEF Idle
<1>13. DeskFinds'
  <2>1. \A q \in Requests : deskCalls'[q].at # "idle" => deskCalls'[q] = deskCalls[q]
    BY <1>9, <1>12
  <2> QED
    BY <1>2, <1>8, <2>1 DEF DeskInv, DeskFinds, Deciding
<1>14. \A w \in Users : w # u => BadgeOK(w)' /\ \A s \in Sides : ReadOK(w, s)'
  <2>1. /\ \A j \in DOMAIN applications' :
              IF j \in DOMAIN applications
              THEN applications'[j] = applications[j] \/ applications[j].user = u
              ELSE applications'[j].user = u
        /\ \A j \in DOMAIN applications : applications'[j].user = applications[j].user
    BY <1>4, <1>8
  <2> QED
    BY <1>1, <1>2, <1>8, <2>1, Elsewhere
<1>15. \A s \in Sides : ReadOK(u, s)'
  BY <1>1, <1>2, <1>12, KeepsCounts
<1>16. BadgeOK(u)'
  <2> SUFFICES ASSUME badgeMixed[u] = FALSE PROVE BadgeOK(u)'
    BY <1>2 DEF BadgeOK
  <2>1. BadgeOK(u) /\ badgeMixed[u] = FALSE
    BY DEF DeskInv
  <2>2. /\ OnlyOne(u)'
        /\ \A q \in Requests : q # r => deskCalls[q].at = "idle" \/ deskCalls[q].user # u
    BY <1>1, <1>2, <1>12, <2>1, DeskServes DEF BadgeOK
  <2>3. \A q \in Requests : deskCalls'[q].at = "idle" \/ deskCalls'[q].user # u
    BY <1>9, <1>12, <2>2
  <2>4. badge'[u] = TRUE => OfPerson(u, {"APPROVED"})' # {}
    <3>1. badge[u] = TRUE => OfPerson(u, {"APPROVED"}) # {}
      BY <1>2, <2>1, <2>2 DEF BadgeOK
    <3> QED
      BY <1>2, <1>8, <3>1 DEF OfPerson
  <2>5. OfPerson(u, {"REJECTED"})' # {} => WrittenTo(u)'
    <3>1. OfPerson(u, {"REJECTED"})' # {} => OfPerson(u, {"REJECTED"}) # {}
      BY <1>4, <1>8 DEF OfPerson
    <3>2. WrittenTo(u) => WrittenTo(u)'
      BY <1>1, <1>2, <1>9 DEF WrittenTo
    <3> QED
      BY <2>1, <3>1, <3>2 DEF BadgeOK
  <2> QED
    BY <2>2, <2>3, <2>4, <2>5 DEF BadgeOK, Deciding
<1> QED
  BY <1>10, <1>11, <1>13, <1>14, <1>15, <1>16 DEF DeskInv

(* What every step of a decision does.                                     *)
Decided(r, u, k, c, st) ==
    /\ DOMAIN applications' = DOMAIN applications /\ k \in DOMAIN applications
    /\ applications[k].user = u
    /\ \A j \in DOMAIN applications :
          /\ applications'[j].user = applications[j].user
          /\ j # k \/ applications' = applications => applications'[j] = applications[j]
    /\ applications' = applications \/ applications'[k].status = st
    /\ \A q \in Requests : deskCalls'[q] = IF q = r THEN c ELSE deskCalls[q]
    /\ badgeMixed[u] = FALSE =>
          /\ OnlyOne(u)'
          /\ \A q \in Requests :
                q # r => deskCalls[q].at = "idle" \/ deskCalls[q].user # u

(* A step of a decision that changes one application of its person keeps   *)
(* the invariant, when it says what it found.                              *)
LEMMA DecidesInv ==
    ASSUME DeskInv, NEW r \in Requests, deskCalls[r].at \in Deciding,
           NEW u \in Users, u = deskCalls[r].user, NEW k, k = deskCalls[r].id,
           NEW c \in DeskCalls, DeskGoes(r, c), c # Idle => c.user = u,
           c.at \in Deciding \cup {"idle", "openThread"}, c.at \in Deciding => c.id = k,
           NEW st \in {"PENDING", "APPROVED", "REJECTED"},
           \/ applications' = applications
           \/ applications' = [applications EXCEPT ![k].status = st],
           badge' \in [Users -> BOOLEAN], \A w \in Users : w # u => badge'[w] = badge[w],
           UNCHANGED <<threads, letters, filed, readAlone, badgeMixed>>
    PROVE  /\ BadgeOK(u)' => DeskInv'
           /\ Decided(r, u, k, c, st)
<1>1. k \in DOMAIN applications /\ applications[k].user = u /\ applications[k] \in AppRows
  BY DEF DeskInv, DeskFinds, DeskTyped
<1>2. PICK row \in AppRows : row = applications[k]
  BY <1>1
<1>3. PICK new \in AppRows : new = [row EXCEPT !.status = st]
  BY <1>2 DEF AppRows
<1>4. new.user = u /\ new.status = st
  BY <1>1, <1>2, <1>3 DEF AppRows
<1>5. \/ applications' = applications
      \/ applications' = [applications EXCEPT ![k] = new]
  BY <1>2, <1>3
<1>6. /\ DOMAIN applications' = DOMAIN applications
      /\ applications' = [j \in DOMAIN applications' |-> applications'[j]]
      /\ \A j \in DOMAIN applications :
            /\ j # k \/ applications' = applications => applications'[j] = applications[j]
            /\ applications'[j] = applications[j] \/ (j = k /\ applications'[j] = new)
      /\ applications' = applications \/ applications'[k] = new
  <2>1. CASE applications' = applications
    BY <2>1 DEF DeskInv, DeskTyped
  <2>2. CASE applications' = [applications EXCEPT ![k] = new]
    BY <1>1, <2>2 DEF DeskInv, DeskTyped
  <2> QED
    BY <1>5, <2>1, <2>2
<1>7. \A j \in DOMAIN applications :
        /\ applications'[j].user = applications[j].user
        /\ applications'[j] \in AppRows
        /\ applications'[j] = applications[j] \/ applications[j].user = u
  BY <1>1, <1>4, <1>6 DEF DeskInv, DeskTyped
<1>8. deskCalls[r].at \notin {"idle", "read"} /\ c.at \notin {"read", "write", "thread"}
  BY DEF Deciding
<1>9. /\ deskCalls' \in [Requests -> DeskCalls]
      /\ \A q \in Requests : deskCalls'[q] = IF q = r THEN c ELSE deskCalls[q]
  BY DeskGoesTo
<1>10. DeskTyped'
  BY <1>6, <1>7, <1>9 DEF DeskInv, DeskTyped, DeskTypeOK
<1>11. Threaded'
  BY DEF DeskInv, Threaded
<1>12. DeskFinds'
  <2>1. c # Idle => c.at # "idle" /\ c.user = u
    BY DEF DeskCalls, Decisions, Idle
  <2>2. c.at \in Deciding => c.user = u /\ c.id = k
    BY <2>1 DEF Deciding, Idle
  <2>3. \A q \in Requests : q # r => deskCalls'[q] = deskCalls[q]
    BY <1>9
  <2>4. deskCalls'[r] = c
    BY <1>9
  <2> QED
    BY <1>1, <1>6, <1>7, <1>8, <2>2, <2>3, <2>4 DEF DeskInv, DeskFinds
<1>13. deskCalls[r] # Idle
  BY <1>8 DEF Idle
<1>14. \A w \in Users : w # u => BadgeOK(w)' /\ \A s \in Sides : ReadOK(w, s)'
  BY <1>6, <1>7, Elsewhere
<1>15. \A s \in Sides : ReadOK(u, s)'
  BY <1>8, KeepsCounts
<1>16. badgeMixed[u] = FALSE =>
          /\ OnlyOne(u)'
          /\ \A q \in Requests : q # r => deskCalls[q].at = "idle" \/ deskCalls[q].user # u
  <2>1. badgeMixed[u] = FALSE => OnlyOne(u)
    BY DEF DeskInv, BadgeOK
  <2> QED
    BY <1>8, <2>1, DeskServes
<1>17. Decided(r, u, k, c, st)
  BY <1>1, <1>4, <1>6, <1>7, <1>9, <1>16 DEF Decided
<1> QED
  BY <1>10, <1>11, <1>12, <1>14, <1>15, <1>17 DEF DeskInv

(* The badge goes on, and the application is marked.                       *)
LEMMA ApproveInv ==
    ASSUME DeskInv, NEW r \in Requests, Approve(r) \/ MarkApproved(r)
    PROVE  DeskInv'
<1>0. deskCalls[r].at \in {"approve", "approved"} /\ deskCalls[r] \in Decisions
  BY DeskCallType DEF Approve, MarkApproved, Deciding
<1>1. PICK u \in Users, k \in Nat : u = deskCalls[r].user /\ k = deskCalls[r].id
  BY <1>0 DEF Decisions
<1>2. deskCalls[r].at \in Deciding
  BY <1>0 DEF Deciding
<1>3. CASE Approve(r)
  <2>1. PICK c \in Decisions : c = [deskCalls[r] EXCEPT !.at = "approved"]
    BY <1>0 DEF Decisions
  <2>2. c.at = "approved" /\ c.user = u /\ c.id = k /\ c \in DeskCalls
    BY <1>0, <1>1, <2>1 DEF Decisions, DeskCalls
  <2>3. /\ deskCalls[r].at = "approve" /\ DeskGoes(r, c)
        /\ badge' = [badge EXCEPT ![u] = TRUE]
        /\ UNCHANGED <<threads, letters, applications, filed, readAlone, badgeMixed>>
    BY <1>1, <1>3, <2>1 DEF Approve, support, deskGhosts
  <2>4. /\ badge' \in [Users -> BOOLEAN] /\ badge'[u] = TRUE
        /\ \A w \in Users : w # u => badge'[w] = badge[w]
    BY <2>3 DEF DeskInv, DeskTyped, DeskTypeOK
  <2>5. (BadgeOK(u)' => DeskInv') /\ Decided(r, u, k, c, "PENDING")
    <3>1. /\ c.at \in Deciding \cup {"idle", "openThread"} /\ (c.at \in Deciding => c.id = k)
          /\ (c # Idle => c.user = u) /\ applications' = applications
          /\ UNCHANGED <<threads, letters, filed, readAlone, badgeMixed>>
      BY <2>2, <2>3 DEF Deciding
    <3> QED
      BY <1>1, <1>2, <2>2, <2>3, <2>4, <3>1, DecidesInv
  <2>6. BadgeOK(u)'
    <3> SUFFICES ASSUME badgeMixed[u] = FALSE PROVE BadgeOK(u)'
      BY <2>3 DEF BadgeOK
    <3>1. BadgeOK(u) /\ badgeMixed[u] = FALSE
      BY DEF DeskInv
    <3>2. applications[k].status = "PENDING"
      BY <1>1, <1>2, <2>3, <3>1 DEF BadgeOK
    <3>3. WrittenTo(u) => WrittenTo(u)'
      BY <2>3, <2>5 DEF WrittenTo, Decided
    <3>4. OfPerson(u, {"REJECTED"})' = OfPerson(u, {"REJECTED"})
      BY <2>3 DEF OfPerson
    <3>5. \A q \in Requests : deskCalls'[q].at \in Deciding /\ deskCalls'[q].user = u => q = r
      BY <2>5, <3>1 DEF Deciding, Decided
    <3> QED
      BY <2>2, <2>3, <2>5, <3>1, <3>2, <3>3, <3>4, <3>5 DEF BadgeOK, Decided
  <2> QED
    BY <2>5, <2>6
<1>4. CASE MarkApproved(r)
  <2>1. Idle \in DeskCalls /\ Idle.at = "idle"
    BY DEF DeskCalls, Idle
  <2>2. /\ deskCalls[r].at = "approved" /\ DeskGoes(r, Idle)
        /\ applications' = [applications EXCEPT ![k].status = "APPROVED"]
        /\ UNCHANGED <<threads, letters, badge, filed, readAlone, badgeMixed>>
    BY <1>1, <1>4 DEF MarkApproved, Mark, support, deskGhosts
  <2>3. badge' \in [Users -> BOOLEAN] /\ \A w \in Users : w # u => badge'[w] = badge[w]
    BY <2>2 DEF DeskInv, DeskTyped, DeskTypeOK
  <2>4. (BadgeOK(u)' => DeskInv') /\ Decided(r, u, k, Idle, "APPROVED")
    <3>1. /\ Idle.at \in Deciding \cup {"idle", "openThread"} /\ Idle.at \notin Deciding
          /\ UNCHANGED <<threads, letters, filed, readAlone, badgeMixed>>
      BY <2>1, <2>2 DEF Deciding
    <3> QED
      BY <1>1, <1>2, <2>1, <2>2, <2>3, <3>1, DecidesInv
  <2>5. BadgeOK(u)'
    <3> SUFFICES ASSUME badgeMixed[u] = FALSE PROVE BadgeOK(u)'
      BY <2>2 DEF BadgeOK
    <3>1. BadgeOK(u) /\ badgeMixed[u] = FALSE
      BY DEF DeskInv
    <3>2. applications[k].status = "PENDING"
      BY <1>1, <1>2, <2>2, <3>1 DEF BadgeOK
    <3>3. applications'[k].status = "APPROVED"
      <4>1. PICK row \in AppRows : row = applications[k]
        BY <2>4 DEF DeskInv, DeskTyped, Decided
      <4>2. [row EXCEPT !.status = "APPROVED"].status = "APPROVED"
        BY DEF AppRows
      <4>3. applications'[k] = [row EXCEPT !.status = "APPROVED"]
        BY <2>2, <2>4, <4>1 DEF Decided, DeskInv, DeskTyped
      <4> QED
        BY <4>2, <4>3
    <3>4. k \in OfPerson(u, {"APPROVED"})'
      BY <2>4, <3>3 DEF OfPerson, Decided
    <3>5. OfPerson(u, {"REJECTED"})' # {} => OfPerson(u, {"REJECTED"}) # {}
      BY <2>4, <3>3 DEF OfPerson, Decided
    <3>6. WrittenTo(u) => WrittenTo(u)'
      BY <2>1, <2>2, <2>4 DEF WrittenTo, Decided
    <3>7. \A q \in Requests : deskCalls'[q].at = "idle" \/ deskCalls'[q].user # u
      BY <2>1, <2>4, <3>1 DEF Decided
    <3> QED
      BY <2>2, <2>4, <3>1, <3>4, <3>5, <3>6, <3>7 DEF BadgeOK, Deciding, Decided
  <2> QED
    BY <2>4, <2>5
<1> QED
  BY <1>3, <1>4

(* A marked application says its mark.                                     *)
LEMMA MarkTells ==
    ASSUME DeskInv, NEW k \in DOMAIN applications, NEW st,
           applications' = [applications EXCEPT ![k].status = st]
    PROVE  k \in DOMAIN applications' /\ applications'[k].status = st
<1>1. PICK row \in AppRows : row = applications[k]
  BY DEF DeskInv, DeskTyped
<1>2. [row EXCEPT !.status = st].status = st
  BY DEF AppRows
<1>3. applications' = [applications EXCEPT ![k] = [row EXCEPT !.status = st]]
  BY <1>1
<1> QED
  BY <1>2, <1>3 DEF DeskInv, DeskTyped

(* The application is rejected, and a message of the desk is on its way.   *)
LEMMA MarkRejectedInv ==
    ASSUME DeskInv, NEW r \in Requests, MarkRejected(r)
    PROVE  DeskInv'
<1>0. deskCalls[r].at = "reject" /\ deskCalls[r].at \in Deciding /\ deskCalls[r] \in Decisions
  BY DeskCallType DEF MarkRejected, Deciding
<1>1. PICK u \in Users, k \in Nat : u = deskCalls[r].user /\ k = deskCalls[r].id
  BY <1>0 DEF Decisions
<1>2. PICK c \in DeskCalls : c = [at |-> "openThread", user |-> u]
  BY DEF DeskCalls
<1>3. c.at = "openThread" /\ c.user = u
  BY <1>2
<1>4. /\ DeskGoes(r, c) /\ applications' = [applications EXCEPT ![k].status = "REJECTED"]
      /\ UNCHANGED <<threads, letters, badge, filed, readAlone, badgeMixed>>
  BY <1>1, <1>2 DEF MarkRejected, Mark, support, deskGhosts
<1>5. badge' \in [Users -> BOOLEAN] /\ \A w \in Users : w # u => badge'[w] = badge[w]
  BY <1>4 DEF DeskInv, DeskTyped, DeskTypeOK
<1>6. (BadgeOK(u)' => DeskInv') /\ Decided(r, u, k, c, "REJECTED")
  <2>1. /\ c.at \in Deciding \cup {"idle", "openThread"} /\ c.at \notin Deciding
        /\ UNCHANGED <<threads, letters, filed, readAlone, badgeMixed>>
    BY <1>3, <1>4 DEF Deciding
  <2> QED
    BY <1>0, <1>1, <1>3, <1>4, <1>5, <2>1, DecidesInv
<1>7. BadgeOK(u)'
  <2> SUFFICES ASSUME badgeMixed[u] = FALSE PROVE BadgeOK(u)'
    BY <1>4 DEF BadgeOK
  <2>1. BadgeOK(u) /\ badgeMixed[u] = FALSE
    BY DEF DeskInv
  <2>2. applications[k].status = "PENDING"
    BY <1>0, <1>1, <2>1 DEF BadgeOK
  <2>3. /\ OnlyOne(u)'
        /\ \A q \in Requests : q # r => deskCalls[q].at = "idle" \/ deskCalls[q].user # u
        /\ deskCalls'[r] = c
        /\ \A q \in Requests : q # r => deskCalls'[q] = deskCalls[q]
    BY <1>6, <2>1 DEF Decided
  <2>4. WrittenTo(u)'
    BY <1>3, <2>3 DEF WrittenTo
  <2>5. badge[u] = TRUE => OfPerson(u, {"APPROVED"}) # {}
    BY <1>0, <2>1, <2>3 DEF BadgeOK
  <2>6. OfPerson(u, {"APPROVED"}) \subseteq OfPerson(u, {"APPROVED"})'
    BY <1>6, <2>2 DEF Decided, OfPerson
  <2>7. \A q \in Requests : deskCalls'[q].at \in {"idle", "openThread"} \/ deskCalls'[q].user # u
    BY <1>3, <2>3
  <2> QED
    BY <1>4, <2>3, <2>4, <2>5, <2>6, <2>7 DEF BadgeOK, Deciding
<1> QED
  BY <1>6, <1>7

(* The badge an application gave is taken back before it waits again.      *)
LEMMA UnbadgeInv ==
    ASSUME DeskInv, NEW r \in Requests, Unbadge(r)
    PROVE  DeskInv'
<1>0. deskCalls[r].at = "unbadge" /\ deskCalls[r].at \in Deciding /\ deskCalls[r] \in Decisions
  BY DeskCallType DEF Unbadge, Deciding
<1>1. PICK u \in Users, k \in Nat : u = deskCalls[r].user /\ k = deskCalls[r].id
  BY <1>0 DEF Decisions
<1>2. PICK c \in Decisions : c = [deskCalls[r] EXCEPT !.at = "reopen"]
  BY <1>0 DEF Decisions
<1>3. c.at = "reopen" /\ c.user = u /\ c.id = k /\ c \in DeskCalls
  BY <1>0, <1>1, <1>2 DEF Decisions, DeskCalls
<1>4. /\ DeskGoes(r, c) /\ badge' = [badge EXCEPT ![u] = FALSE]
      /\ UNCHANGED <<threads, letters, applications, filed, readAlone, badgeMixed>>
  BY <1>1, <1>2 DEF Unbadge, support, deskGhosts
<1>5. /\ badge' \in [Users -> BOOLEAN] /\ badge'[u] = FALSE
      /\ \A w \in Users : w # u => badge'[w] = badge[w]
  BY <1>4 DEF DeskInv, DeskTyped, DeskTypeOK
<1>6. (BadgeOK(u)' => DeskInv') /\ Decided(r, u, k, c, "PENDING")
  <2>1. /\ c.at \in Deciding \cup {"idle", "openThread"} /\ (c.at \in Deciding => c.id = k)
        /\ (c # Idle => c.user = u)
        /\ applications' = applications
        /\ UNCHANGED <<threads, letters, filed, readAlone, badgeMixed>>
    BY <1>3, <1>4 DEF Deciding
  <2> QED
    BY <1>0, <1>1, <1>3, <1>4, <1>5, <2>1, DecidesInv
<1>7. BadgeOK(u)'
  <2> SUFFICES ASSUME badgeMixed[u] = FALSE PROVE BadgeOK(u)'
    BY <1>4 DEF BadgeOK
  <2>1. BadgeOK(u) /\ badgeMixed[u] = FALSE
    BY DEF DeskInv
  <2>2. /\ OnlyOne(u)'
        /\ \A q \in Requests : q # r => deskCalls[q].at = "idle" \/ deskCalls[q].user # u
        /\ deskCalls'[r] = c
        /\ \A q \in Requests : q # r => deskCalls'[q] = deskCalls[q]
    BY <1>6, <2>1 DEF Decided
  <2>3. WrittenTo(u) => WrittenTo(u)'
    BY <1>0, <1>4, <2>2 DEF WrittenTo
  <2>4. OfPerson(u, {"REJECTED"})' = OfPerson(u, {"REJECTED"})
    BY <1>4 DEF OfPerson
  <2>5. \A q \in Requests : deskCalls'[q].at \in Deciding /\ deskCalls'[q].user = u => q = r
    BY <2>2 DEF Deciding
  <2> QED
    BY <1>3, <1>4, <1>5, <2>1, <2>2, <2>3, <2>4, <2>5 DEF BadgeOK
<1> QED
  BY <1>6, <1>7

(* The application waits again, unless another one does.                   *)
LEMMA ReopenInv ==
    ASSUME DeskInv, NEW r \in Requests, Reopen(r)
    PROVE  DeskInv'
<1>0. deskCalls[r].at = "reopen" /\ deskCalls[r].at \in Deciding /\ deskCalls[r] \in Decisions
  BY DeskCallType DEF Reopen, Deciding
<1>1. PICK u \in Users, k \in Nat : u = deskCalls[r].user /\ k = deskCalls[r].id
  BY <1>0 DEF Decisions
<1>2. Idle \in DeskCalls /\ Idle.at = "idle"
  BY DEF DeskCalls, Idle
<1>3. /\ DeskGoes(r, Idle)
      /\ \/ applications' = applications
         \/ applications' = [applications EXCEPT ![k].status = "PENDING"]
      /\ UNCHANGED <<threads, letters, badge, filed, readAlone, badgeMixed>>
  BY <1>1 DEF Reopen, Mark, support, deskGhosts
<1>4. badge' \in [Users -> BOOLEAN] /\ \A w \in Users : w # u => badge'[w] = badge[w]
  BY <1>3 DEF DeskInv, DeskTyped, DeskTypeOK
<1>5. (BadgeOK(u)' => DeskInv') /\ Decided(r, u, k, Idle, "PENDING")
  <2>1. /\ Idle.at \in Deciding \cup {"idle", "openThread"} /\ Idle.at \notin Deciding
        /\ UNCHANGED <<threads, letters, filed, readAlone, badgeMixed>>
    BY <1>2, <1>3 DEF Deciding
  <2> QED
    BY <1>0, <1>1, <1>2, <1>3, <1>4, <2>1, DecidesInv
<1>6. BadgeOK(u)'
  <2> SUFFICES ASSUME badgeMixed[u] = FALSE PROVE BadgeOK(u)'
    BY <1>3 DEF BadgeOK
  <2>1. BadgeOK(u) /\ badgeMixed[u] = FALSE
    BY DEF DeskInv
  <2>2. badge[u] = FALSE \/ applications[k].status = "REJECTED"
    BY <1>0, <1>1, <2>1 DEF BadgeOK
  <2>3. /\ OnlyOne(u)'
        /\ \A q \in Requests : q # r => deskCalls[q].at = "idle" \/ deskCalls[q].user # u
        /\ deskCalls'[r] = Idle
        /\ \A q \in Requests : q # r => deskCalls'[q] = deskCalls[q]
    BY <1>5, <2>1 DEF Decided
  <2>4. WrittenTo(u) => WrittenTo(u)'
    BY <1>0, <1>3, <2>3 DEF WrittenTo
  <2>5. badge[u] = TRUE => OfPerson(u, {"APPROVED"}) # {}
    BY <1>0, <2>1, <2>3 DEF BadgeOK
  <2>6. badge[u] = TRUE => OfPerson(u, {"APPROVED"}) \subseteq OfPerson(u, {"APPROVED"})'
    BY <1>5, <2>2 DEF Decided, OfPerson
  <2>7. OfPerson(u, {"REJECTED"})' \subseteq OfPerson(u, {"REJECTED"})
    <3>1. CASE applications' = applications
      BY <3>1 DEF OfPerson
    <3>2. CASE applications' # applications
      BY <1>5, <3>2 DEF Decided, OfPerson
    <3> QED
      BY <3>1, <3>2
  <2>8. \A q \in Requests : deskCalls'[q].at = "idle" \/ deskCalls'[q].user # u
    BY <1>2, <2>3
  <2>9. OfPerson(u, {"REJECTED"})' # {} => WrittenTo(u)'
    BY <2>1, <2>4, <2>7 DEF BadgeOK
  <2>10. badge'[u] = TRUE => OfPerson(u, {"APPROVED"})' # {}
    BY <1>3, <2>5, <2>6
  <2> QED
    BY <2>3, <2>8, <2>9, <2>10 DEF BadgeOK, Deciding
<1> QED
  BY <1>5, <1>6

(* A restart cuts what was in flight; whoever it was about is marked.      *)
LEMMA DeskRestartInv ==
    ASSUME DeskInv, DeskRestart
    PROVE  DeskInv'
<1>1. /\ UNCHANGED <<threads, letters, applications, filed, badge>>
      /\ deskCalls' = [r \in Requests |-> Idle]
      /\ badgeMixed' = [u \in Users |-> badgeMixed[u] \/
            \E r \in Requests : deskCalls[r] # Idle /\ deskCalls[r].user = u]
      /\ readAlone' = [x \in Users \X Sides |-> readAlone[x] /\
            {r \in Requests : deskCalls[r].at = "read" /\ deskCalls[r].user = x[1]
                                                      /\ deskCalls[r].side = x[2]} = {}]
  BY DEF DeskRestart, support, files
<1>2. /\ deskCalls' \in [Requests -> DeskCalls]
      /\ \A r \in Requests : deskCalls'[r] = Idle /\ deskCalls'[r].at = "idle"
  BY <1>1 DEF DeskCalls, Idle
<1>3. badgeMixed' \in [Users -> BOOLEAN] /\ readAlone' \in [Users \X Sides -> BOOLEAN]
  BY <1>1 DEF DeskInv, DeskTyped
<1>4. DeskTyped' /\ Threaded' /\ DeskFinds'
  BY <1>1, <1>2, <1>3 DEF DeskInv, DeskTyped, DeskTypeOK, Threaded, DeskFinds, Deciding
<1>5. \A u \in Users : OnlyOne(u)'
  BY <1>2 DEF OnlyOne
<1>6. ASSUME NEW u \in Users PROVE BadgeOK(u)'
  <2> SUFFICES ASSUME badgeMixed'[u] = FALSE PROVE BadgeOK(u)'
    BY DEF BadgeOK
  <2>1. /\ badgeMixed[u] = FALSE
        /\ \A r \in Requests : deskCalls[r] = Idle \/ deskCalls[r].user # u
    BY <1>1 DEF DeskInv, DeskTyped
  <2>2. \A r \in Requests : deskCalls[r].at = "idle" \/ deskCalls[r].user # u
    BY <2>1 DEF Idle
  <2>3. BadgeOK(u)
    BY DEF DeskInv
  <2>4. badge[u] = TRUE => OfPerson(u, {"APPROVED"}) # {}
    BY <2>1, <2>2, <2>3 DEF BadgeOK
  <2>5. OfPerson(u, {"REJECTED"}) # {} => \E i \in DOMAIN letters[u] : letters[u][i] = "desk"
    BY <2>1, <2>2, <2>3 DEF BadgeOK, WrittenTo
  <2>6. \A st : OfPerson(u, st)' = OfPerson(u, st)
    BY <1>1 DEF OfPerson
  <2>7. OfPerson(u, {"REJECTED"})' # {} => WrittenTo(u)'
    BY <1>1, <2>5, <2>6 DEF WrittenTo
  <2> QED
    BY <1>1, <1>2, <1>5, <2>4, <2>6, <2>7 DEF BadgeOK, Deciding
<1>7. ASSUME NEW u \in Users, NEW s \in Sides PROVE ReadOK(u, s)'
  <2> SUFFICES ASSUME readAlone'[<<u, s>>] PROVE ReadOK(u, s)'
    BY DEF ReadOK
  <2>1. /\ readAlone[<<u, s>>]
        /\ \A r \in Requests : deskCalls[r].at = "read" /\ deskCalls[r].user = u =>
              deskCalls[r].side # s
    <3>1. <<u, s>> \in Users \X Sides /\ <<u, s>>[1] = u /\ <<u, s>>[2] = s
      OBVIOUS
    <3>2. PICK x \in Users \X Sides : x = <<u, s>> /\ x[1] = u /\ x[2] = s
      BY <3>1
    <3>3. /\ readAlone[x]
          /\ {r \in Requests : deskCalls[r].at = "read" /\ deskCalls[r].user = x[1]
                                                       /\ deskCalls[r].side = x[2]} = {}
      BY <1>1, <3>2
    <3> QED
      BY <3>2, <3>3
  <2>2. Tallied(u, s)
    BY <2>1 DEF DeskInv, ReadOK
  <2>3. Tallied(u, s)'
    BY <1>1, <2>2 DEF Tallied, Unseen
  <2> QED
    BY <1>2, <1>5, <2>3 DEF ReadOK
<1> QED
  BY <1>4, <1>6, <1>7 DEF DeskInv

(* What changes nothing keeps the invariant.                               *)
LEMMA DeskStutterInv ==
    ASSUME DeskInv, UNCHANGED deskVars
    PROVE  DeskInv'
<1>1. UNCHANGED <<threads, letters, applications, filed, badge, deskCalls, readAlone, badgeMixed>>
  BY DEF deskVars
<1>2. DeskTyped' /\ Threaded' /\ DeskFinds'
  BY <1>1 DEF DeskInv, DeskTyped, DeskTypeOK, Threaded, DeskFinds
<1>3. ASSUME NEW u \in Users PROVE BadgeOK(u)'
  <2>1. BadgeOK(u)
    BY DEF DeskInv
  <2> QED
    BY <1>1, <2>1 DEF BadgeOK, OnlyOne, OfPerson, WrittenTo
<1>4. ASSUME NEW u \in Users, NEW s \in Sides PROVE ReadOK(u, s)'
  <2>1. ReadOK(u, s)
    BY DEF DeskInv
  <2> QED
    BY <1>1, <2>1 DEF ReadOK, OnlyOne, Tallied, Unseen
<1> QED
  BY <1>2, <1>3, <1>4 DEF DeskInv

(* Every step of the desk keeps the invariant.                             *)
LEMMA DeskNextInv ==
    DeskInv /\ [DeskNext]_deskVars => DeskInv'
<1> SUFFICES ASSUME DeskInv, [DeskNext]_deskVars PROVE DeskInv'
  OBVIOUS
<1>1. ASSUME NEW r \in Requests,
             \/ \E u \in Users, side \in Sides : AskSend(r, u, side) \/ AskRead(r, u, side)
             \/ \E u \in Users : AskSubmit(r, u)
             \/ \E k \in DOMAIN applications :
                   \/ AskDecide(r, k, "approve") \/ AskDecide(r, k, "reject")
                   \/ AskReopen(r, k)
      PROVE DeskInv'
  BY <1>1, DeskAsksInv
<1>2. ASSUME NEW r \in Requests, ReadThread(r) \/ WriteMessage(r) \/ MarkRead(r) \/ OpenThread(r)
      PROVE DeskInv'
  BY <1>2, ReadThreadInv, WriteMessageInv, MarkReadInv, OpenThreadInv
<1>3. ASSUME NEW r \in Requests,
             \/ SaveApplication(r) \/ Approve(r) \/ MarkApproved(r) \/ MarkRejected(r)
             \/ Unbadge(r) \/ Reopen(r)
      PROVE DeskInv'
  BY <1>3, SaveApplicationInv, ApproveInv, MarkRejectedInv, UnbadgeInv, ReopenInv
<1>4. ASSUME NEW u \in Users, NEW status \in {"OPEN", "CLOSED"}, SetStatus(u, status)
      PROVE DeskInv'
  BY <1>4, SetStatusInv
<1> QED
  BY <1>1, <1>2, <1>3, <1>4, DeskRestartInv, DeskStutterInv DEF DeskNext

(* What the invariant says once nothing is in flight.                      *)
LEMMA DeskInvTells == DeskInv => UnreadIsUnseen /\ BadgeIsApproved /\ DeskTypeOK
<1> SUFFICES ASSUME DeskInv PROVE UnreadIsUnseen /\ BadgeIsApproved /\ DeskTypeOK
  OBVIOUS
<1>1. DeskTypeOK
  BY DEF DeskInv, DeskTyped
<1>2. Quiet(deskCalls) => \A r \in Requests : deskCalls[r].at = "idle"
  BY DEF Quiet, Idle
<1>3. UnreadIsUnseen
  <2> SUFFICES ASSUME Quiet(deskCalls), NEW u \in Users, NEW side \in Sides,
                      threads[u] # None, readAlone[<<u, side>>]
               PROVE  threads[u].unread[side] = Cardinality(Unseen(u, side))
    BY DEF UnreadIsUnseen
  <2>1. readAlone[<<u, side>>] /\ ReadOK(u, side)
    BY DEF DeskInv
  <2> QED
    BY <1>2, <2>1 DEF ReadOK, Tallied
<1>4. BadgeIsApproved
  <2> SUFFICES ASSUME Quiet(deskCalls), NEW u \in Users, ~badgeMixed[u]
               PROVE  /\ badge[u] => OfPerson(u, {"APPROVED"}) # {}
                      /\ OfPerson(u, {"REJECTED"}) # {} =>
                            \E i \in DOMAIN letters[u] : letters[u][i] = "desk"
    BY DEF BadgeIsApproved
  <2>1. badgeMixed[u] = FALSE /\ BadgeOK(u)
    BY DEF DeskInv, DeskTyped
  <2> QED
    BY <1>2, <2>1 DEF BadgeOK, WrittenTo
<1> QED
  BY <1>1, <1>3, <1>4

(* The unread numbers are the messages nobody opened, and nobody wears a   *)
(* badge without an approved application, for any people, requests and     *)
(* bounds, whatever restarts cut off (support.service.ts:80-289,           *)
(* verification.service.ts:135-232).                                       *)
THEOREM DeskIsKept == DeskSpec => []TheDeskIsRight
<1>1. DeskSpec => []DeskInv
  BY DeskInitInv, DeskNextInv, PTL DEF DeskSpec
<1>2. DeskInv => TheDeskIsRight
  BY DeskInvTells DEF TheDeskIsRight
<1> QED
  BY <1>1, <1>2, PTL

(***************************************************************************)
(* How a list is read (Pages)                                              *)
(***************************************************************************)
Cursors == [phase : {"u", "s", "a"}, from : [row : Nat, place : Nat], skip : Nat]

PagesTyped ==
    /\ PagesTypeOK
    /\ cursor \in Cursors /\ left \in Nat /\ came \in Nat

LEMMA EntriesFinite ==
    /\ Entries \subseteq Nat /\ IsFiniteSet(Entries)
    /\ \A S \in SUBSET Entries : IsFiniteSet(S) /\ Cardinality(S) \in Nat
<1>1. IsFiniteSet(Entries) /\ Cardinality(Entries) \in Nat
  BY PagesBounds, FS_CardinalityType
<1>2. Entries \subseteq Nat
  BY <1>1, PagesBounds
<1>3. ASSUME NEW S \in SUBSET Entries PROVE IsFiniteSet(S) /\ Cardinality(S) \in Nat
  <2>1. IsFiniteSet(S)
    BY <1>1, FS_Subset
  <2> QED
    BY <2>1, FS_CardinalityType
<1> QED
  BY <1>1, <1>2, <1>3

(* A sequence that orders a set holds each of its elements once.           *)
Spells(s, S) ==
    /\ s \in Seq(S) /\ Len(s) \in Nat /\ DOMAIN s = 1 .. Len(s)
    /\ \A i \in 1 .. Len(s) : s[i] \in S
    /\ \A i, j \in 1 .. Len(s) : s[i] = s[j] => i = j

Descends(s) == \A i, j \in 1 .. Len(s) : i < j => ~Ahead(s[j], s[i])

LEMMA OrdersSpell ==
    ASSUME NEW S \in SUBSET Entries, NEW s \in Orders(S)
    PROVE  /\ Spells(s, S) /\ Descends(s) /\ Len(s) = Cardinality(S)
           /\ \A r \in S : \E i \in 1 .. Len(s) : s[i] = r
<1> DEFINE n == Cardinality(S)
<1>1. IsFiniteSet(S) /\ n \in Nat
  BY EntriesFinite
<1>2. /\ s \in [1 .. n -> S]
      /\ \A i, j \in 1 .. n : i # j => s[i] # s[j]
      /\ \A i, j \in DOMAIN s : i < j => ~Ahead(s[j], s[i])
  BY DEF Orders, SetToSeqs
<1> HIDE DEF n
<1>3. s \in Seq(S) /\ Len(s) = n
  BY <1>1, <1>2
<1>4. s \in Injection(1 .. n, S)
  BY <1>2 DEF Injection, IsInjective
<1>5. Cardinality(1 .. n) = Cardinality(S)
  <2>1. Cardinality(1 .. n) = IF 1 > n THEN 0 ELSE n - 1 + 1
    BY <1>1, FS_Interval
  <2> QED
    BY <1>1, <2>1 DEF n
<1>6. s \in Surjection(1 .. n, S)
  BY <1>1, <1>4, <1>5, FS_Injection
<1>7. \A r \in S : \E i \in 1 .. n : s[i] = r
  BY <1>6 DEF Surjection
<1>8. Spells(s, S)
  BY <1>1, <1>2, <1>3 DEF Spells
<1> QED
  BY <1>1, <1>2, <1>3, <1>7, <1>8 DEF Descends, n

OnPage(f, r) == \E i \in 1 .. Len(f) : f[i] = r
OnceOnPage(f, r) == \A i, j \in 1 .. Len(f) : f[i] = r /\ f[j] = r => i = j

(* The first page of a set: it is full, or it is all of the set.           *)
IsFirstPage(f, S, n) ==
    /\ Spells(f, S) /\ Descends(f) /\ Len(f) <= n
    /\ Len(f) < n => \A r \in S : OnPage(f, r)
    /\ \A r \in S : OnPage(f, r) \/ \A i \in 1 .. Len(f) : ~Ahead(r, f[i])

LEMMA FirstSpells ==
    ASSUME NEW S \in SUBSET Entries, NEW s \in Orders(S), NEW n \in Nat
    PROVE  IsFirstPage(First(s, n), S, n)
<1> DEFINE f == First(s, n)
<1>1. /\ Spells(s, S) /\ Descends(s)
      /\ \A r \in S : \E i \in 1 .. Len(s) : s[i] = r
  BY OrdersSpell
<1>2. /\ Len(s) \in Nat
      /\ \A i \in 1 .. Len(s) : s[i] \in S
      /\ \A i, j \in 1 .. Len(s) : s[i] = s[j] => i = j
  BY <1>1 DEF Spells
<1>3. PICK k \in Nat : /\ k = IF Len(s) < n THEN Len(s) ELSE n
                       /\ k <= Len(s) /\ k <= n /\ (k < n => k = Len(s))
  BY <1>2
<1>4. f = SubSeq(s, 1, k)
  BY <1>3 DEF First
<1>5. \A i \in 1 .. k : s[i] \in S
  BY <1>2, <1>3
<1> HIDE DEF f
<1>6. /\ f \in Seq(S) /\ Len(f) = k
      /\ \A i \in 1 .. k : f[i] = s[i]
  <2>1. /\ f \in Seq(S)
        /\ Len(f) = IF 1 <= k THEN k - 1 + 1 ELSE 0
        /\ \A i \in 1 .. k - 1 + 1 : f[i] = s[1 + i - 1]
    BY <1>3, <1>4, <1>5, SubSeqProperties
  <2>2. k - 1 + 1 = k /\ \A i \in 1 .. k : 1 + i - 1 = i
    BY <1>3
  <2> QED
    BY <1>3, <2>1, <2>2
<1>7. Spells(f, S)
  <2>1. DOMAIN f = 1 .. k
    BY <1>6
  <2>2. \A i, j \in 1 .. k : f[i] = f[j] => i = j
    BY <1>2, <1>3, <1>6
  <2> QED
    BY <1>3, <1>5, <1>6, <2>1, <2>2 DEF Spells
<1>8. ASSUME NEW i \in 1 .. k, NEW j \in 1 .. Len(s), i < j
      PROVE  ~Ahead(s[j], f[i])
  <2>1. i \in 1 .. Len(s) /\ f[i] = s[i]
    BY <1>2, <1>3, <1>6
  <2> QED
    BY <1>1, <1>8, <2>1 DEF Descends
<1>9. Descends(f)
  <2>1. ASSUME NEW i \in 1 .. k, NEW j \in 1 .. k, i < j PROVE ~Ahead(f[j], f[i])
    <3>1. j \in 1 .. Len(s) /\ f[j] = s[j]
      BY <1>2, <1>3, <1>6
    <3> QED
      BY <1>8, <2>1, <3>1
  <2> QED
    BY <1>6, <2>1 DEF Descends
<1>10. ASSUME Len(f) < n, NEW r \in S PROVE \E i \in 1 .. Len(f) : f[i] = r
  BY <1>1, <1>3, <1>6, <1>10
<1>11. ASSUME NEW r \in S
      PROVE  \/ \E i \in 1 .. Len(f) : f[i] = r
             \/ \A i \in 1 .. Len(f) : ~Ahead(r, f[i])
  <2>1. PICK j \in 1 .. Len(s) : s[j] = r
    BY <1>1
  <2>2. CASE j <= k
    BY <1>3, <1>6, <2>1, <2>2
  <2>3. CASE k < j
    <3>1. \A i \in 1 .. k : i < j
      BY <1>2, <1>3, <2>3
    <3> QED
      BY <1>6, <1>8, <2>1, <3>1
  <2> QED
    BY <1>2, <1>3, <2>1, <2>2, <2>3
<1> QED
  BY <1>3, <1>6, <1>7, <1>9, <1>10, <1>11 DEF IsFirstPage, OnPage, f

PageLists ==
    [how : {"keyset", "moment", "offset"}, oldest : BOOLEAN, byId : BOOLEAN,
     anywhere : BOOLEAN, moves : BOOLEAN, leaves : BOOLEAN, mineFirst : BOOLEAN]

LEMMA ListKinds ==
    ASSUME list \in Lists
    PROVE  /\ list \in PageLists
           /\ list.how = "keyset" => list.byId /\ ~list.oldest /\ ~list.moves
           /\ list.how = "moment" =>
                ~list.byId /\ ~list.oldest /\ ~list.moves /\ ~list.leaves
<1> DEFINE Offset(p) == p \in PageLists /\ p.how = "offset"
<1>1. \A moves, leaves \in BOOLEAN : Offset(ByTime(moves, leaves))
  BY DEF ByTime, PageLists
<1>2. ASSUME NEW leaves \in BOOLEAN PROVE Offset(ByValue(leaves))
  BY DEF ByValue, ByTime, PageLists
<1>3. Offset(ByStatus)
  BY <1>1 DEF ByStatus, PageLists
<1>4. Offset(SellerSearch) /\ Offset(ReviewPage)
  BY <1>1, <1>2 DEF SellerSearch, ReviewPage, PageLists
<1>5. \A p : Offset(p) => Offset(OldestFirst(p))
  BY DEF OldestFirst, PageLists
<1>6. Offset(RepliesPage) /\ Offset(VerificationQueue)
  BY <1>1, <1>3, <1>5 DEF RepliesPage, VerificationQueue
<1>7. /\ ReelFeed \in PageLists /\ ReelFeed.how = "keyset"
      /\ ReelFeed.byId /\ ~ReelFeed.oldest /\ ~ReelFeed.moves
  BY DEF ReelFeed, ByTime, PageLists
<1>8. /\ ChatThread \in PageLists /\ ChatThread.how = "moment"
      /\ ~ChatThread.byId /\ ~ChatThread.oldest /\ ~ChatThread.moves /\ ~ChatThread.leaves
  BY DEF ChatThread, ByTime, PageLists
<1> HIDE DEF Offset
<1>9. CASE list \in {ListingFeed, OwnerPage, SellerSearch, DeskQueue, WalletsPage}
  <2>1. Offset(list)
    BY <1>2, <1>4, <1>9 DEF ListingFeed, OwnerPage, DeskQueue, WalletsPage
  <2> QED
    BY <2>1 DEF Offset
<1>10. CASE list \in {SavedPage, FollowPage, ReelComments, AuthorPage, ReelShelf,
                      MyReviews, GrantsPage, MyAdverts, LedgerPage, AdjustmentsPage,
                      InboxPage}
  <2>1. Offset(list)
    BY <1>1, <1>10 DEF SavedPage, FollowPage, ReelComments, AuthorPage, ReelShelf,
         MyReviews, GrantsPage, MyAdverts, LedgerPage, AdjustmentsPage, InboxPage
  <2> QED
    BY <2>1 DEF Offset
<1>11. CASE list \in {ReviewPage, RepliesPage, VerificationQueue}
  <2>1. Offset(list)
    BY <1>4, <1>6, <1>11
  <2> QED
    BY <2>1 DEF Offset
<1>12. CASE list \in {BidPage, MembersPage, AdvertsPage, PaymentsPage, ReelQueue,
                      ReviewQueue, FlagQueue, ReportQueue, ChatReportQueue}
  <2>1. Offset(list)
    BY <1>3, <1>12 DEF BidPage, MembersPage, AdvertsPage, PaymentsPage, ReelQueue,
         ReviewQueue, FlagQueue, ReportQueue, ChatReportQueue
  <2> QED
    BY <2>1 DEF Offset
<1>13. CASE list = ReelFeed
  BY <1>7, <1>13
<1>14. CASE list = ChatThread
  BY <1>8, <1>14
<1> QED
  BY <1>9, <1>10, <1>11, <1>12, <1>13, <1>14 DEF Lists

(* The order: strict, and total but for rows it does not tell apart.       *)
LEMMA AheadOrders ==
    ASSUME PagesTyped
    PROVE  /\ \A a \in Entries : ~Ahead(a, a)
           /\ \A a, b, c \in Entries : Ahead(a, b) /\ Ahead(b, c) => Ahead(a, c)
           /\ \A a, b \in Entries :
                 a # b /\ (list.byId \/ place[a] # place[b]) => Ahead(a, b) \/ Ahead(b, a)
           /\ \A a, b \in Entries : place[a] # place[b] => (Ahead(a, b) <=> ~Ahead(b, a))
<1>1. list.oldest \in BOOLEAN /\ list.byId \in BOOLEAN
  BY ListKinds DEF PagesTyped, PagesTypeOK, PageLists
<1>2. \A a \in Entries : place[a] \in Int /\ a \in Int
  BY EntriesFinite, PagesBounds DEF PagesTyped, PagesTypeOK
<1> QED
  BY <1>1, <1>2 DEF Ahead

(* What is not empty has a last row.                                       *)
LEMMA HasLast ==
    ASSUME PagesTyped, NEW S \in SUBSET Entries, S # {}
    PROVE  \E m \in S : \A q \in S : ~Ahead(m, q)
<1> DEFINE D(m) == {q \in S : Ahead(m, q)}
           T == {D(m) : m \in S}
           R == StrictSubsetOrdering(Entries)
<1>1. IsWellFoundedOn(R, FiniteSubsetsOf(Entries))
  BY FS_StrictSubsetOrderingWellFounded
<1>2. FiniteSubsetsOf(Entries) = SUBSET Entries
  BY EntriesFinite, FS_FiniteSubsetsOfFinite
<1>3. T \subseteq SUBSET Entries /\ T # {}
  OBVIOUS
<1> HIDE DEF T
<1>4. PICK X \in T : \A Y \in T : <<Y, X>> \notin R
  <2> HIDE DEF R
  <2> QED
    BY <1>1, <1>2, <1>3, WFMin
<1>5. PICK m \in S : X = D(m)
  BY <1>4 DEF T
<1>6. ASSUME NEW q \in S, Ahead(m, q) PROVE FALSE
  <2>1. \A p \in D(q) : p \in D(m)
    BY <1>6, AheadOrders
  <2>2. q \in D(m) /\ q \notin D(q)
    BY <1>6, AheadOrders
  <2>3. D(q) \in T
    BY DEF T
  <2>4. <<D(q), X>> \in R
    BY <1>3, <1>5, <2>1, <2>2, <2>3 DEF StrictSubsetOrdering
  <2> QED
    BY <1>4, <2>3, <2>4
<1> QED
  BY <1>6

(* Every set of rows has an order: the query always has an answer.         *)
LEMMA OrdersThere ==
    ASSUME PagesTyped, NEW S \in SUBSET Entries
    PROVE  Orders(S) # {}
<1> DEFINE Bad == {B \in SUBSET Entries : Orders(B) = {}}
           R == StrictSubsetOrdering(Entries)
<1>1. IsWellFoundedOn(R, FiniteSubsetsOf(Entries))
  BY FS_StrictSubsetOrderingWellFounded
<1>2. FiniteSubsetsOf(Entries) = SUBSET Entries
  BY EntriesFinite, FS_FiniteSubsetsOfFinite
<1>3. SUFFICES ASSUME Bad # {} PROVE FALSE
  OBVIOUS
<1>4. PICK B \in Bad : \A C \in Bad : <<C, B>> \notin R
  <2>1. Bad \subseteq SUBSET Entries
    OBVIOUS
  <2> HIDE DEF R, Bad
  <2> QED
    BY <1>1, <1>2, <1>3, <2>1, WFMin
<1>5. B \subseteq Entries /\ IsFiniteSet(B) /\ Cardinality(B) \in Nat
  BY EntriesFinite
<1>6. B # {}
  <2>1. Cardinality({}) = 0
    BY FS_EmptySet
  <2>2. << >> \in Orders({})
    <3>1. << >> \in [1 .. 0 -> {}] /\ DOMAIN << >> = {}
      OBVIOUS
    <3>2. << >> \in SetToSeqs({})
      BY <2>1, <3>1 DEF SetToSeqs
    <3> QED
      BY <3>1, <3>2 DEF Orders
  <2> QED
    BY <2>2
<1>7. PICK m \in B : \A q \in B : ~Ahead(m, q)
  BY <1>5, <1>6, HasLast
<1>8. B \ {m} \notin Bad
  BY <1>4, <1>5, <1>7 DEF StrictSubsetOrdering
<1>9. PICK s \in Orders(B \ {m}) : TRUE
  BY <1>5, <1>8
<1>10. PICK n \in Nat : n = Cardinality(B \ {m}) /\ Cardinality(B) = n + 1
  <2>1. /\ IsFiniteSet(B \ {m}) /\ Cardinality(B \ {m}) \in Nat
    BY <1>5, EntriesFinite
  <2>2. Cardinality(B \ {m}) = IF m \in B THEN Cardinality(B) - 1 ELSE Cardinality(B)
    BY <1>5, FS_RemoveElement
  <2> QED
    BY <1>5, <1>7, <2>1, <2>2
<1>11. /\ s \in [1 .. n -> B \ {m}]
       /\ \A i, j \in 1 .. n : i # j => s[i] # s[j]
       /\ \A i, j \in 1 .. n : i < j => ~Ahead(s[j], s[i])
  BY <1>9, <1>10 DEF Orders, SetToSeqs
<1>12. /\ s \in [1 .. n -> B]
       /\ \A i \in 1 .. n : s[i] \in B /\ s[i] # m
  BY <1>11
<1> DEFINE t == [i \in 1 .. (n + 1) |-> IF i = n + 1 THEN m ELSE s[i]]
<1> HIDE DEF t
<1>13. ASSUME NEW i \in 1 .. (n + 1)
       PROVE  \/ i \in 1 .. n /\ t[i] = s[i]
              \/ i = n + 1 /\ t[i] = m
  <2>1. t[i] = IF i = n + 1 THEN m ELSE s[i]
    BY DEF t
  <2>2. i = n + 1 \/ i \in 1 .. n
    OBVIOUS
  <2>3. CASE i = n + 1
    BY <2>1, <2>3
  <2>4. CASE i # n + 1
    BY <2>1, <2>2, <2>4
  <2> QED
    BY <2>3, <2>4
<1>14. t \in [1 .. (n + 1) -> B]
  <2>1. \A i \in 1 .. (n + 1) : t[i] \in B
    BY <1>7, <1>12, <1>13
  <2> QED
    BY <2>1 DEF t
<1>15. ASSUME NEW i \in 1 .. (n + 1), NEW j \in 1 .. (n + 1), i # j PROVE t[i] # t[j]
  <2>1. CASE i \in 1 .. n /\ j \in 1 .. n
    BY <1>11, <1>13, <1>15, <2>1
  <2>2. CASE i = n + 1 \/ j = n + 1
    BY <1>12, <1>13, <1>15, <2>2
  <2> QED
    BY <1>13, <2>1, <2>2
<1>16. ASSUME NEW i \in 1 .. (n + 1), NEW j \in 1 .. (n + 1), i < j
       PROVE  ~Ahead(t[j], t[i])
  <2>1. i \in 1 .. n /\ t[i] = s[i] /\ s[i] \in B
    BY <1>12, <1>13, <1>16
  <2>2. CASE j = n + 1
    BY <1>7, <1>13, <2>1, <2>2
  <2>3. CASE j # n + 1
    <3>1. j \in 1 .. n /\ t[j] = s[j]
      BY <1>13, <2>3
    <3> QED
      BY <1>11, <1>16, <2>1, <3>1
  <2> QED
    BY <2>2, <2>3
<1>17. t \in Orders(B)
  BY <1>10, <1>14, <1>15, <1>16 DEF Orders, SetToSeqs
<1> QED
  BY <1>4, <1>17

(* What the reader was given, and was given again.                         *)
ReadGiven(r) == Readings(r) # {}
ReadTwice(r) == \E a, b \in Readings(r) : a # b

AreReadings(R, ps, r) ==
    R = UNION {{p} \X {i \in DOMAIN ps[p] : ps[p][i] = r} : p \in DOMAIN ps}

LEMMA ReadingsAt ==
    ASSUME NEW ps \in Seq(Seq(Entries)), NEW r, NEW R, AreReadings(R, ps, r)
    PROVE  \A a : a \in R <=> \E p \in 1 .. Len(ps) : \E i \in 1 .. Len(ps[p]) :
                                 ps[p][i] = r /\ a = <<p, i>>
<1>1. Len(ps) \in Nat /\ DOMAIN ps = 1 .. Len(ps)
  OBVIOUS
<1>2. \A p \in 1 .. Len(ps) : ps[p] \in Seq(Entries)
  BY <1>1
<1>3. \A p \in 1 .. Len(ps) : DOMAIN ps[p] = 1 .. Len(ps[p])
  BY <1>2
<1> DEFINE Row(p) == {p} \X {i \in DOMAIN ps[p] : ps[p][i] = r}
<1>4. ASSUME NEW a
      PROVE  a \in R <=> \E p \in 1 .. Len(ps) : a \in Row(p)
  BY <1>1 DEF AreReadings
<1>5. ASSUME NEW a, NEW p \in 1 .. Len(ps)
      PROVE  a \in Row(p) <=> \E i \in 1 .. Len(ps[p]) : ps[p][i] = r /\ a = <<p, i>>
  BY <1>3
<1> HIDE DEF Row
<1> QED
  BY <1>4, <1>5

LEMMA Handed ==
    ASSUME PagesTyped, NEW f \in Seq(Entries), NEW next, NEW end, Hand(f, next, end)
    PROVE  \A r : /\ ReadGiven(r)' <=> ReadGiven(r) \/ OnPage(f, r)
                  /\ ReadTwice(r)' => \/ ReadTwice(r)
                                      \/ ReadGiven(r) /\ OnPage(f, r)
                                      \/ ~OnceOnPage(f, r)
<1> SUFFICES ASSUME NEW r
             PROVE  /\ ReadGiven(r)' <=> ReadGiven(r) \/ OnPage(f, r)
                    /\ ReadTwice(r)' => \/ ReadTwice(r)
                                        \/ ReadGiven(r) /\ OnPage(f, r)
                                        \/ ~OnceOnPage(f, r)
  OBVIOUS
<1>1. PICK n \in Nat : n = Len(pages)
  BY DEF PagesTyped, PagesTypeOK
<1>2. pages \in Seq(Seq(Entries)) /\ pages' = Append(pages, f)
  BY DEF PagesTyped, PagesTypeOK, Hand
<1>3. /\ pages' \in Seq(Seq(Entries)) /\ Len(pages') = n + 1
      /\ \A p \in 1 .. n : pages'[p] = pages[p]
      /\ pages'[n + 1] = f
  BY <1>1, <1>2
<1>4. \A a : a \in Readings(r) <=> \E p \in 1 .. n : \E i \in 1 .. Len(pages[p]) :
                                      pages[p][i] = r /\ a = <<p, i>>
  <2>1. PICK R : R = Readings(r) /\ AreReadings(R, pages, r)
    BY DEF Readings, AreReadings
  <2> QED
    BY <1>1, <1>2, <2>1, ReadingsAt
<1>5. \A a : a \in Readings(r)' <=> \E p \in 1 .. (n + 1) : \E i \in 1 .. Len(pages'[p]) :
                                       pages'[p][i] = r /\ a = <<p, i>>
  <2>1. PICK R : R = Readings(r)' /\ AreReadings(R, pages', r)
    BY DEF Readings, AreReadings
  <2>2. PICK ps \in Seq(Seq(Entries)) : ps = pages'
    BY <1>3
  <2>3. AreReadings(R, ps, r)
    BY <2>1, <2>2
  <2>4. \A a : a \in R <=> \E p \in 1 .. Len(ps) : \E i \in 1 .. Len(ps[p]) :
                              ps[p][i] = r /\ a = <<p, i>>
    BY <2>3, ReadingsAt
  <2>5. Len(ps) = n + 1
    BY <1>3, <2>2
  <2> QED
    BY <2>1, <2>2, <2>4, <2>5
<1>6. \A a : a \in Readings(r)' <=>
        a \in Readings(r) \/ \E i \in 1 .. Len(f) : f[i] = r /\ a = <<n + 1, i>>
  <2>1. ASSUME NEW a
        PROVE  a \in Readings(r)' <=>
                 \/ \E p \in 1 .. n : \E i \in 1 .. Len(pages'[p]) :
                       pages'[p][i] = r /\ a = <<p, i>>
                 \/ \E i \in 1 .. Len(pages'[n + 1]) :
                       pages'[n + 1][i] = r /\ a = <<n + 1, i>>
    <3>1. \A p : p \in 1 .. (n + 1) <=> p \in 1 .. n \/ p = n + 1
      BY <1>1
    <3> QED
      BY <1>5, <3>1
  <2> QED
    BY <1>3, <1>4, <2>1
<1>7. ReadGiven(r)' <=> ReadGiven(r) \/ OnPage(f, r)
  BY <1>6 DEF ReadGiven, OnPage
<1>8. ASSUME ReadTwice(r)', ~ReadTwice(r), OnceOnPage(f, r)
      PROVE  ReadGiven(r) /\ OnPage(f, r)
  <2>1. PICK a, b \in Readings(r)' : a # b
    BY <1>8 DEF ReadTwice
  <2>2. ~(a \in Readings(r) /\ b \in Readings(r))
    BY <1>8, <2>1 DEF ReadTwice
  <2>3. \E i \in 1 .. Len(f) : f[i] = r
    BY <1>6, <2>1, <2>2
  <2>4. a \in Readings(r) \/ b \in Readings(r)
    <3>1. SUFFICES ASSUME a \notin Readings(r), b \notin Readings(r) PROVE FALSE
      OBVIOUS
    <3>2. PICK i \in 1 .. Len(f) : f[i] = r /\ a = <<n + 1, i>>
      BY <1>6, <2>1, <3>1
    <3>3. PICK j \in 1 .. Len(f) : f[j] = r /\ b = <<n + 1, j>>
      BY <1>6, <2>1, <3>1
    <3>4. i = j
      BY <1>8, <3>2, <3>3 DEF OnceOnPage
    <3> QED
      BY <2>1, <3>2, <3>3, <3>4
  <2> QED
    BY <2>3, <2>4 DEF ReadGiven, OnPage
<1> QED
  BY <1>7, <1>8

(* Nobody else's step gives the reader anything.                           *)
LEMMA NotHanded ==
    ASSUME UNCHANGED pages
    PROVE  \A r : (ReadGiven(r)' <=> ReadGiven(r)) /\ (ReadTwice(r)' <=> ReadTwice(r))
BY DEF ReadGiven, ReadTwice, Readings

LEMMA RowsAreEntries ==
    ASSUME PagesTyped
    PROVE  /\ PageRows \subseteq Entries /\ stood \subseteq PageRows
           /\ \A r \in Entries : place[r] \in Nat
           /\ \A phase : InPhase(phase) \subseteq Entries
BY DEF PagesTyped, PagesTypeOK, PageRows, InPhase

LEMMA FeedReads ==
    ASSUME PagesTyped, NEW phase, NEW from, NEW n \in Nat, NEW S,
           S = {r \in InPhase(phase) : Beyond(r, from)}
    PROVE  /\ S \subseteq Entries
           /\ IsFirstPage(FeedRows(phase, from, n), S, n)
           /\ FeedRows(phase, from, n) \in Seq(Entries)
<1>1. S \in SUBSET Entries
  BY RowsAreEntries
<1> DEFINE s == CHOOSE s \in Orders(S) : TRUE
<1>2. s \in Orders(S)
  BY <1>1, OrdersThere
<1>3. FeedRows(phase, from, n) = First(s, n)
  BY DEF FeedRows
<1> HIDE DEF s
<1>4. IsFirstPage(First(s, n), S, n)
  BY <1>1, <1>2, FirstSpells
<1>5. First(s, n) \in Seq(Entries)
  BY <1>1, <1>4, SeqMonotonic DEF IsFirstPage, Spells
<1> QED
  BY <1>1, <1>3, <1>4, <1>5

ReadPast(r) == ~Beyond(r, cursor.from)

(* What a phase has shown up to its cursor, and what came before it.       *)
ReadDue(r) ==
    \/ cursor.phase = "a" /\ ReadPast(r)
    \/ cursor.phase = "u" /\ ReadPast(r) /\ r \notin watched
    \/ cursor.phase = "s" /\ (ReadPast(r) \/ r \notin watched)

ReelsRight == list.how = "keyset" =>
    \A r \in stood :
       /\ ReadTwice(r) => r \in rewatched /\ cursor.phase = "s"
       /\ ended => ReadGiven(r)
       /\ ~ended => /\ ReadDue(r) => ReadGiven(r)
                    /\ ReadGiven(r) => \/ ReadDue(r)
                                       \/ r \in rewatched /\ cursor.phase # "a"

LEMMA HandTyped ==
    ASSUME PagesTyped, NEW f \in Seq(Entries), NEW next \in Cursors,
           NEW end \in BOOLEAN, Hand(f, next, end)
    PROVE  PagesTyped'
<1>1. pages' \in Seq(Seq(Entries))
  BY DEF PagesTyped, PagesTypeOK, Hand
<1>2. cursor' \in Cursors /\ cursor'.phase \in {"u", "s", "a"} /\ ended' \in BOOLEAN
  BY DEF Hand, Cursors
<1>3. PageRows' = PageRows
  BY DEF Hand, PageRows
<1> QED
  BY <1>1, <1>2, <1>3 DEF PagesTyped, PagesTypeOK, Hand, pageGhosts

LEMMA HoldingType ==
    ASSUME PagesTyped, NEW q \in Entries
    PROVE  /\ Holding(q) \in [row : Nat, place : Nat] /\ Holding(q) # NoRow
           /\ Holding(q).row = q /\ Holding(q).place = place[q]
<1>1. q \in Nat /\ q # 0 /\ place[q] \in Nat
  BY EntriesFinite, RowsAreEntries, PagesBounds
<1> QED
  BY <1>1 DEF Holding, NoRow

LEMMA BeyondHeld ==
    ASSUME PagesTyped, list.how = "keyset", NEW q \in Entries, NEW r \in Entries
    PROVE  Beyond(r, Holding(q)) <=> Ahead(q, r)
<1>1. list.byId /\ ~list.oldest
  BY ListKinds DEF PagesTyped, PagesTypeOK
<1>2. /\ Holding(q) # NoRow /\ Holding(q).row = q /\ Holding(q).place = place[q]
  BY HoldingType
<1>3. place[q] \in Nat /\ place[r] \in Nat /\ q \in Nat /\ r \in Nat
  BY EntriesFinite, RowsAreEntries
<1> QED
  BY <1>1, <1>2, <1>3 DEF Beyond, Ahead

LEMMA BeyondGoesOn ==
    ASSUME PagesTyped, list.how = "keyset", NEW from \in [row : Nat, place : Nat],
           NEW q \in Entries, NEW r \in Entries, Beyond(q, from), Ahead(q, r)
    PROVE  Beyond(r, from)
<1>1. list.byId /\ ~list.oldest
  BY ListKinds DEF PagesTyped, PagesTypeOK
<1>2. place[q] \in Nat /\ place[r] \in Nat /\ q \in Nat /\ r \in Nat
  BY EntriesFinite, RowsAreEntries
<1>3. from.place \in Nat /\ from.row \in Nat
  OBVIOUS
<1> QED
  BY <1>1, <1>2, <1>3 DEF Beyond, Ahead

(* One page of a phase, from a cursor: the rows up to its last one.        *)
IsReelPage(f, phase, from, n) ==
    /\ f \in Seq(Entries) /\ Len(f) \in Nat /\ Len(f) <= n
    /\ \A r : OnceOnPage(f, r)
    /\ \A r : OnPage(f, r) => r \in InPhase(phase) /\ Beyond(r, from)
    /\ Len(f) < n => \A r \in InPhase(phase) : Beyond(r, from) => OnPage(f, r)
    /\ Len(f) # 0 =>
         /\ f[Len(f)] \in Entries
         /\ \A r \in InPhase(phase) :
              Beyond(r, from) /\ ~Beyond(r, Holding(f[Len(f)])) => OnPage(f, r)
         /\ \A r : OnPage(f, r) => ~Beyond(r, Holding(f[Len(f)]))
         /\ \A r \in Entries : ~Beyond(r, from) => ~Beyond(r, Holding(f[Len(f)]))

LEMMA ReelPage ==
    ASSUME PagesTyped, list.how = "keyset", NEW phase,
           NEW from \in [row : Nat, place : Nat], NEW n \in Nat,
           NEW f, f = FeedRows(phase, from, n)
    PROVE  IsReelPage(f, phase, from, n)
<1> DEFINE S == {r \in InPhase(phase) : Beyond(r, from)}
<1>1. S \subseteq Entries /\ IsFirstPage(f, S, n) /\ f \in Seq(Entries)
  BY FeedReads
<1>2. /\ Len(f) \in Nat /\ Len(f) <= n /\ Descends(f)
      /\ \A i \in 1 .. Len(f) : f[i] \in S
      /\ \A i, j \in 1 .. Len(f) : f[i] = f[j] => i = j
      /\ Len(f) < n => \A r \in S : OnPage(f, r)
      /\ \A r \in S : OnPage(f, r) \/ \A i \in 1 .. Len(f) : ~Ahead(r, f[i])
  BY <1>1 DEF IsFirstPage, Spells
<1>3. \A r : OnceOnPage(f, r)
  BY <1>2 DEF OnceOnPage
<1>4. \A r : OnPage(f, r) => r \in S
  BY <1>2 DEF OnPage
<1>5. ASSUME Len(f) # 0
      PROVE  /\ f[Len(f)] \in Entries
             /\ \A r \in S : ~Beyond(r, Holding(f[Len(f)])) => OnPage(f, r)
             /\ \A r : OnPage(f, r) => ~Beyond(r, Holding(f[Len(f)]))
             /\ \A r \in Entries : ~Beyond(r, from) => ~Beyond(r, Holding(f[Len(f)]))
  <2>1. PICK q \in S : q = f[Len(f)]
    BY <1>2, <1>5
  <2>2. q \in Entries /\ Beyond(q, from)
    BY <1>1
  <2>3. ASSUME NEW r \in S, ~Beyond(r, Holding(q)) PROVE OnPage(f, r)
    <3>1. r \in Entries /\ ~Ahead(q, r)
      BY <1>1, <2>2, <2>3, BeyondHeld
    <3>2. CASE r = q
      BY <1>2, <1>5, <2>1, <3>2 DEF OnPage
    <3>3. CASE r # q
      <4>1. Ahead(r, q)
        <5>1. list.byId
          BY ListKinds DEF PagesTyped, PagesTypeOK
        <5> QED
          BY <2>2, <3>1, <3>3, <5>1, AheadOrders
      <4> QED
        BY <1>2, <1>5, <2>1, <4>1
    <3> QED
      BY <3>2, <3>3
  <2>4. ASSUME NEW r, OnPage(f, r) PROVE ~Beyond(r, Holding(q))
    <3>1. PICK i \in 1 .. Len(f) : f[i] = r
      BY <2>4 DEF OnPage
    <3>2. ~Ahead(q, r)
      <4>1. CASE i = Len(f)
        BY <2>1, <2>2, <3>1, <4>1, AheadOrders
      <4>2. CASE i < Len(f)
        BY <1>2, <1>5, <2>1, <3>1, <4>2 DEF Descends
      <4> QED
        BY <1>2, <3>1, <4>1, <4>2
    <3> QED
      BY <1>1, <1>4, <2>2, <2>4, <3>2, BeyondHeld
  <2>5. ASSUME NEW r \in Entries, ~Beyond(r, from) PROVE ~Beyond(r, Holding(q))
    BY <2>2, <2>5, BeyondHeld, BeyondGoesOn
  <2> QED
    BY <2>1, <2>2, <2>3, <2>4, <2>5
<1> QED
  BY <1>1, <1>2, <1>3, <1>4, <1>5 DEF IsReelPage

LEMMA ConcatHolds ==
    ASSUME NEW f \in Seq(Entries), NEW g \in Seq(Entries)
    PROVE  /\ f \o g \in Seq(Entries)
           /\ \A r : OnPage(f \o g, r) <=> OnPage(f, r) \/ OnPage(g, r)
           /\ \A r : OnceOnPage(f, r) /\ OnceOnPage(g, r) /\ ~(OnPage(f, r) /\ OnPage(g, r))
                        => OnceOnPage(f \o g, r)
<1>1. PICK n \in Nat, m \in Nat : n = Len(f) /\ m = Len(g)
  OBVIOUS
<1>2. /\ f \o g \in Seq(Entries) /\ Len(f \o g) = n + m
      /\ \A i \in 1 .. n + m : (f \o g)[i] = IF i <= n THEN f[i] ELSE g[i - n]
  BY <1>1, ConcatProperties
<1> DEFINE h == f \o g
<1> HIDE DEF h
<1>3. \A i \in 1 .. n + m : \/ i \in 1 .. n /\ h[i] = f[i]
                            \/ i - n \in 1 .. m /\ h[i] = g[i - n]
  BY <1>1, <1>2 DEF h
<1>4. /\ \A i \in 1 .. n : i \in 1 .. n + m /\ h[i] = f[i]
      /\ \A j \in 1 .. m : n + j \in 1 .. n + m /\ h[n + j] = g[j]
  <2>1. \A i \in 1 .. n : i \in 1 .. n + m /\ i <= n
    BY <1>1
  <2>2. \A j \in 1 .. m : n + j \in 1 .. n + m /\ ~(n + j <= n) /\ n + j - n = j
    BY <1>1
  <2> QED
    BY <1>2, <2>1, <2>2 DEF h
<1>5. ASSUME NEW r PROVE OnPage(h, r) <=> OnPage(f, r) \/ OnPage(g, r)
  <2>1. ASSUME OnPage(h, r) PROVE OnPage(f, r) \/ OnPage(g, r)
    BY <1>1, <1>2, <1>3, <2>1 DEF OnPage, h
  <2>2. ASSUME OnPage(f, r) PROVE OnPage(h, r)
    BY <1>1, <1>2, <1>4, <2>2 DEF OnPage, h
  <2>3. ASSUME OnPage(g, r) PROVE OnPage(h, r)
    BY <1>1, <1>2, <1>4, <2>3 DEF OnPage, h
  <2> QED
    BY <2>1, <2>2, <2>3
<1>6. ASSUME NEW r, OnceOnPage(f, r), OnceOnPage(g, r), ~(OnPage(f, r) /\ OnPage(g, r)),
             NEW i \in 1 .. n + m, NEW j \in 1 .. n + m, h[i] = r, h[j] = r
      PROVE  i = j
  <2>1. CASE i \in 1 .. n /\ j \in 1 .. n
    BY <1>1, <1>4, <1>6, <2>1 DEF OnceOnPage
  <2>2. CASE i - n \in 1 .. m /\ h[i] = g[i - n] /\ j - n \in 1 .. m /\ h[j] = g[j - n]
    <3>1. i - n = j - n
      BY <1>1, <1>6, <2>2 DEF OnceOnPage
    <3> QED
      BY <1>1, <3>1
  <2>3. CASE i \in 1 .. n /\ h[i] = f[i] /\ j - n \in 1 .. m /\ h[j] = g[j - n]
    BY <1>1, <1>6, <2>3 DEF OnPage
  <2>4. CASE j \in 1 .. n /\ h[j] = f[j] /\ i - n \in 1 .. m /\ h[i] = g[i - n]
    BY <1>1, <1>6, <2>4 DEF OnPage
  <2> QED
    BY <1>3, <2>1, <2>2, <2>3, <2>4
<1>7. Len(h) = n + m
  BY <1>2 DEF h
<1>8. \A r : OnceOnPage(f, r) /\ OnceOnPage(g, r) /\ ~(OnPage(f, r) /\ OnPage(g, r))
                => OnceOnPage(h, r)
  BY <1>6, <1>7 DEF OnceOnPage
<1> QED
  BY <1>2, <1>5, <1>8 DEF h

LEMMA ReelsReadOn ==
    ASSUME PagesTyped, ReelsRight, ReadReels
    PROVE  PagesTyped' /\ ReelsRight'
<1> DEFINE first == FeedRows(cursor.phase, cursor.from, PageSize)
           second == FeedRows("s", NoRow, PageSize - Len(first))
<1>1. /\ list.how = "keyset" /\ ~ended /\ PageSize \in Nat \ {0}
      /\ cursor \in Cursors /\ cursor.from \in [row : Nat, place : Nat]
  BY PagesBounds DEF PagesTyped, Cursors, ReadReels, Hand
<1>2. /\ first \in Seq(Entries) /\ Len(first) \in Nat /\ Len(first) <= PageSize
      /\ \A r : OnceOnPage(first, r)
      /\ \A r : OnPage(first, r) => r \in InPhase(cursor.phase) /\ Beyond(r, cursor.from)
      /\ Len(first) < PageSize =>
           \A r \in InPhase(cursor.phase) : Beyond(r, cursor.from) => OnPage(first, r)
      /\ Len(first) # 0 =>
           /\ first[Len(first)] \in Entries
           /\ \A r \in InPhase(cursor.phase) :
                Beyond(r, cursor.from) /\ ~Beyond(r, Holding(first[Len(first)]))
                  => OnPage(first, r)
           /\ \A r : OnPage(first, r) => ~Beyond(r, Holding(first[Len(first)]))
           /\ \A r \in Entries :
                ~Beyond(r, cursor.from) => ~Beyond(r, Holding(first[Len(first)]))
  <2> HIDE DEF first
  <2>1. IsReelPage(first, cursor.phase, cursor.from, PageSize)
    BY <1>1, ReelPage DEF first
  <2> QED
    BY <2>1 DEF IsReelPage
<1>3. PICK k \in Nat : k = PageSize - Len(first)
  BY <1>1, <1>2
<1>4. NoRow \in [row : Nat, place : Nat] /\ \A r : Beyond(r, NoRow)
  BY DEF NoRow, Beyond
<1>5. /\ second \in Seq(Entries) /\ Len(second) \in Nat
      /\ \A r : OnceOnPage(second, r)
      /\ \A r : OnPage(second, r) => r \in InPhase("s")
      /\ Len(second) < k => \A r \in InPhase("s") : OnPage(second, r)
      /\ Len(second) # 0 =>
           /\ second[Len(second)] \in Entries
           /\ \A r \in InPhase("s") : ~Beyond(r, Holding(second[Len(second)])) => OnPage(second, r)
           /\ \A r : OnPage(second, r) => ~Beyond(r, Holding(second[Len(second)]))
  <2>1. second = FeedRows("s", NoRow, k)
    BY <1>3
  <2> HIDE DEF second, first
  <2>2. IsReelPage(second, "s", NoRow, k)
    BY <1>1, <1>4, <2>1, ReelPage
  <2> QED
    BY <1>4, <2>2 DEF IsReelPage
<1> DEFINE Turned(phase, g) == [cursor EXCEPT !.phase = phase,
                                                 !.from = Holding(g[Len(g)])]
<1>6. \/ /\ cursor.phase = "u" /\ Len(first) < PageSize /\ second = << >>
         /\ Hand(first, cursor, TRUE)
      \/ /\ cursor.phase = "u" /\ Len(first) < PageSize /\ second # << >>
         /\ Hand(first \o second, Turned("s", second), FALSE)
      \/ /\ Len(first) = PageSize /\ Hand(first, Turned(cursor.phase, first), FALSE)
      \/ /\ cursor.phase # "u" /\ Len(first) # PageSize /\ Hand(first, cursor, TRUE)
  <2>1. \/ cursor.phase = "u" /\ Len(first) < PageSize
        \/ Len(first) = PageSize
        \/ cursor.phase # "u" /\ Len(first) # PageSize
    <3> HIDE DEF first, second
    <3> QED
      BY <1>1, <1>2
  <2>2. IF cursor.phase = "u" /\ Len(first) < PageSize
        THEN IF second = << >> THEN Hand(first, cursor, TRUE)
             ELSE Hand(first \o second, Turned("s", second), FALSE)
        ELSE IF Len(first) = PageSize
             THEN Hand(first, Turned(cursor.phase, first), FALSE)
             ELSE Hand(first, cursor, TRUE)
    BY DEF ReadReels
  <2> HIDE DEF first, second, Turned
  <2>3. ~(Len(first) = PageSize /\ Len(first) < PageSize)
    BY <1>1, <1>2
  <2> QED
    BY <2>1, <2>2, <2>3
<1> HIDE DEF second, first
<1>7. /\ \A r \in stood : r \in Entries /\ r \in PageRows
      /\ rewatched \subseteq watched
      /\ \A r \in PageRows : /\ r \in InPhase("a")
                             /\ r \in InPhase("u") <=> r \notin watched
                             /\ r \in InPhase("s") <=> r \in watched
  BY RowsAreEntries DEF PagesTyped, PagesTypeOK, InPhase
<1>8. cursor.phase \in {"u", "s", "a"}
  BY <1>1 DEF Cursors
<1>9. \A r \in stood :
        /\ ReadTwice(r) => r \in rewatched /\ cursor.phase = "s"
        /\ ReadDue(r) => ReadGiven(r)
        /\ ReadGiven(r) => ReadDue(r) \/ (r \in rewatched /\ cursor.phase # "a")
  BY <1>1 DEF ReelsRight
<1>10. CASE \/ /\ cursor.phase = "u" /\ Len(first) < PageSize /\ second = << >>
               /\ Hand(first, cursor, TRUE)
            \/ /\ cursor.phase # "u" /\ Len(first) # PageSize /\ Hand(first, cursor, TRUE)
  <2>1. Len(first) < PageSize /\ Hand(first, cursor, TRUE)
    <3>1. Len(first) # PageSize /\ PageSize \in Nat => Len(first) < PageSize
      BY <1>2
    <3> QED
      BY <1>1, <1>10, <3>1
  <2>2. PagesTyped'
    BY <1>1, <1>2, <2>1, HandTyped
  <2>3. \A r : /\ ReadGiven(r)' <=> ReadGiven(r) \/ OnPage(first, r)
               /\ ReadTwice(r)' => ReadTwice(r) \/ (ReadGiven(r) /\ OnPage(first, r))
    BY <1>1, <1>2, <2>1, Handed
  <2>4. /\ ended' = TRUE /\ UNCHANGED <<list, place, watched, rewatched, stood, cursor>>
    BY <2>1 DEF Hand, pageGhosts
  <2>5. ASSUME NEW r \in stood
        PROVE  /\ ReadTwice(r)' => r \in rewatched /\ cursor.phase = "s"
               /\ ReadGiven(r)'
    <3>1. \A q \in InPhase(cursor.phase) : Beyond(q, cursor.from) => OnPage(first, q)
      BY <1>2, <2>1
    <3>2. ReadGiven(r)'
      <4>1. CASE cursor.phase = "u"
        <5>1. second = << >> /\ 0 < k
          BY <1>1, <1>2, <1>3, <1>10, <4>1
        <5>2. \A q \in InPhase("s") : FALSE
          BY <1>3, <1>5, <5>1 DEF OnPage
        <5> QED
          BY <1>7, <1>9, <2>3, <3>1, <4>1, <5>2 DEF ReadDue, ReadPast
      <4>2. CASE cursor.phase # "u"
        BY <1>7, <1>8, <1>9, <2>3, <3>1, <4>2 DEF ReadDue, ReadPast
      <4> QED
        BY <4>1, <4>2
    <3>3. ASSUME ReadTwice(r)' PROVE r \in rewatched /\ cursor.phase = "s"
      <4>1. CASE ReadTwice(r)
        BY <1>9, <4>1
      <4>2. CASE ReadGiven(r) /\ OnPage(first, r)
        BY <1>2, <1>7, <1>8, <1>9, <4>2 DEF ReadDue, ReadPast
      <4> QED
        BY <2>3, <3>3, <4>1, <4>2
    <3> QED
      BY <3>2, <3>3
  <2> QED
    BY <2>2, <2>4, <2>5 DEF ReelsRight
<1>11. CASE Len(first) = PageSize /\ Hand(first, Turned(cursor.phase, first), FALSE)
  <2> DEFINE next == Turned(cursor.phase, first)
  <2>1. PICK q \in Entries : q = first[Len(first)]
    BY <1>1, <1>2, <1>11
  <2>2. /\ next \in Cursors /\ next.phase = cursor.phase /\ next.from = Holding(q)
    BY <1>1, <2>1, HoldingType DEF Cursors
  <2> HIDE DEF next
  <2>3. Hand(first, next, FALSE)
    BY <1>11 DEF next
  <2>4. PagesTyped'
    BY <1>2, <2>2, <2>3, HandTyped
  <2>5. \A r : /\ ReadGiven(r)' <=> ReadGiven(r) \/ OnPage(first, r)
               /\ ReadTwice(r)' => ReadTwice(r) \/ (ReadGiven(r) /\ OnPage(first, r))
    BY <1>2, <2>3, Handed
  <2>6. /\ ended' = FALSE /\ UNCHANGED <<list, place, watched, rewatched, stood>>
        /\ cursor' = next
    BY <2>3 DEF Hand, pageGhosts
  <2>7. \A r : ReadPast(r)' <=> ~Beyond(r, Holding(q))
    BY <2>2, <2>6 DEF ReadPast, Beyond
  <2>8. /\ \A r \in InPhase(cursor.phase) :
             Beyond(r, cursor.from) /\ ~Beyond(r, Holding(q)) => OnPage(first, r)
        /\ \A r : OnPage(first, r) => ~Beyond(r, Holding(q))
        /\ \A r \in Entries : ~Beyond(r, cursor.from) => ~Beyond(r, Holding(q))
    BY <1>1, <1>2, <1>11, <2>1
  <2>9. ASSUME NEW r \in stood
        PROVE  /\ ReadTwice(r)' => r \in rewatched /\ cursor.phase = "s"
               /\ ReadDue(r)' => ReadGiven(r)'
               /\ ReadGiven(r)' => ReadDue(r)' \/ (r \in rewatched /\ cursor.phase # "a")
    <3>1. ReadDue(r)' <=>
            \/ cursor.phase = "a" /\ ~Beyond(r, Holding(q))
            \/ cursor.phase = "u" /\ ~Beyond(r, Holding(q)) /\ r \notin watched
            \/ cursor.phase = "s" /\ (~Beyond(r, Holding(q)) \/ r \notin watched)
      BY <2>2, <2>6, <2>7 DEF ReadDue
    <3>2. ASSUME ReadTwice(r)' PROVE r \in rewatched /\ cursor.phase = "s"
      <4>1. CASE ReadTwice(r)
        BY <1>9, <4>1
      <4>2. CASE ReadGiven(r) /\ OnPage(first, r)
        BY <1>2, <1>7, <1>8, <1>9, <4>2 DEF ReadDue, ReadPast
      <4> QED
        BY <2>5, <3>2, <4>1, <4>2
    <3>3. ASSUME ReadDue(r)' PROVE ReadGiven(r)'
      BY <1>7, <1>8, <1>9, <2>5, <2>8, <3>1, <3>3 DEF ReadDue, ReadPast
    <3>4. ASSUME ReadGiven(r)' PROVE ReadDue(r)' \/ (r \in rewatched /\ cursor.phase # "a")
      BY <1>2, <1>7, <1>8, <1>9, <2>5, <2>8, <3>1, <3>4 DEF ReadDue, ReadPast
    <3> QED
      BY <3>2, <3>3, <3>4
  <2>10. cursor'.phase = cursor.phase
    BY <2>2, <2>6
  <2> QED
    BY <2>4, <2>6, <2>9, <2>10 DEF ReelsRight
<1>12. CASE /\ cursor.phase = "u" /\ Len(first) < PageSize /\ second # << >>
            /\ Hand(first \o second, Turned("s", second), FALSE)
  <2> DEFINE next == Turned("s", second)
  <2>1. PICK q \in Entries : q = second[Len(second)]
    BY <1>5, <1>12, EmptySeq
  <2>2. /\ next \in Cursors /\ next.phase = "s" /\ next.from = Holding(q)
    BY <1>1, <2>1, HoldingType DEF Cursors
  <2> HIDE DEF next
  <2>3. PICK f \in Seq(Entries) :
          /\ Hand(f, next, FALSE)
          /\ \A r : OnPage(f, r) <=> OnPage(first, r) \/ OnPage(second, r)
          /\ \A r : OnceOnPage(f, r)
    <3>1. \A r : ~(OnPage(first, r) /\ OnPage(second, r))
      BY <1>2, <1>5, <1>12 DEF InPhase
    <3>2. /\ first \in Seq(Entries) /\ second \in Seq(Entries)
          /\ \A r : OnceOnPage(first, r) /\ OnceOnPage(second, r)
      BY <1>2, <1>5
    <3>3. PICK f : f = first \o second
      OBVIOUS
    <3>4. /\ f \in Seq(Entries)
          /\ \A r : OnPage(f, r) <=> OnPage(first, r) \/ OnPage(second, r)
          /\ \A r : OnceOnPage(f, r)
      BY <3>1, <3>2, <3>3, ConcatHolds
    <3>5. Hand(f, next, FALSE)
      BY <1>12, <3>3 DEF next
    <3> QED
      BY <3>4, <3>5
  <2>4. PagesTyped'
    BY <2>2, <2>3, HandTyped
  <2>5. \A r : /\ ReadGiven(r)' <=> ReadGiven(r) \/ OnPage(first, r) \/ OnPage(second, r)
               /\ ReadTwice(r)' => \/ ReadTwice(r)
                                   \/ ReadGiven(r) /\ (OnPage(first, r) \/ OnPage(second, r))
    BY <2>3, Handed
  <2>6. /\ ended' = FALSE /\ UNCHANGED <<list, place, watched, rewatched, stood>>
        /\ cursor' = next
    BY <2>3 DEF Hand, pageGhosts
  <2>7. \A r : ReadPast(r)' <=> ~Beyond(r, Holding(q))
    BY <2>2, <2>6 DEF ReadPast, Beyond
  <2>8. /\ \A r \in InPhase("u") : Beyond(r, cursor.from) => OnPage(first, r)
        /\ \A r \in InPhase("s") : ~Beyond(r, Holding(q)) => OnPage(second, r)
        /\ \A r : OnPage(second, r) => ~Beyond(r, Holding(q))
    BY <1>2, <1>5, <1>12, <2>1, EmptySeq
  <2>9. ASSUME NEW r \in stood
        PROVE  /\ ReadTwice(r)' => r \in rewatched
               /\ ReadDue(r)' => ReadGiven(r)'
               /\ ReadGiven(r)' => ReadDue(r)' \/ r \in rewatched
    <3>1. ReadDue(r)' <=> ~Beyond(r, Holding(q)) \/ r \notin watched
      BY <2>2, <2>6, <2>7 DEF ReadDue
    <3>2. /\ ReadDue(r) <=> ~Beyond(r, cursor.from) /\ r \notin watched
          /\ ~ReadTwice(r)
          /\ ReadDue(r) => ReadGiven(r)
          /\ ReadGiven(r) => ReadDue(r) \/ r \in rewatched
      BY <1>9, <1>12 DEF ReadDue, ReadPast
    <3>3. /\ OnPage(first, r) => r \notin watched /\ Beyond(r, cursor.from)
          /\ OnPage(second, r) => r \in watched /\ ~Beyond(r, Holding(q))
          /\ r \in watched /\ ~Beyond(r, Holding(q)) => OnPage(second, r)
          /\ r \notin watched /\ Beyond(r, cursor.from) => OnPage(first, r)
      BY <1>2, <1>5, <1>7, <1>12, <2>8
    <3> QED
      BY <1>7, <2>5, <3>1, <3>2, <3>3
  <2>10. cursor'.phase = "s"
    BY <2>2, <2>6
  <2> QED
    BY <2>4, <2>6, <2>9, <2>10 DEF ReelsRight
<1> QED
  BY <1>6, <1>10, <1>11, <1>12

ReadOlder(r) == cursor.from = NoRow \/ place[r] < 2 * Moment(cursor.from.place)

(* What the thread owes: no message twice, and each one read, or yet to    *)
(* come, or clipped.                                                       *)
ThreadRight == list.how = "moment" =>
    /\ \A r \in Entries : ReadGiven(r) => r \in PageRows
    /\ \A r \in stood : /\ ~ReadTwice(r)
                        /\ ReadGiven(r) \/ Clipped(r) \/ (~ended /\ ReadOlder(r))
                        /\ ~ended => ~(ReadGiven(r) /\ ReadOlder(r))

LEMMA MomentBounds ==
    ASSUME NEW p \in Nat
    PROVE  /\ Moment(p) \in Nat /\ 2 * Moment(p) <= p
           /\ \A q \in Nat : \/ Moment(q) = Moment(p)
                             \/ Moment(q) < Moment(p) /\ q < 2 * Moment(p)
                             \/ p < q
<1>1. \A q \in Nat : Moment(q) \in Nat /\ 2 * Moment(q) <= q /\ q <= 2 * Moment(q) + 1
  BY DEF Moment
<1>2. ASSUME NEW q \in Nat, q <= p, Moment(q) # Moment(p)
      PROVE  Moment(q) < Moment(p) /\ q < 2 * Moment(p)
  <2>1. PICK m \in Nat : m = Moment(p) /\ 2 * m <= p /\ p <= 2 * m + 1
    BY <1>1
  <2>2. PICK k \in Nat : k = Moment(q) /\ 2 * k <= q /\ q <= 2 * k + 1
    BY <1>1
  <2>3. k < m /\ q < 2 * m
    BY <1>2, <2>1, <2>2
  <2> QED
    BY <2>1, <2>2, <2>3
<1> QED
  BY <1>1, <1>2

(* A page more leaves clipped what was, and adds the moment it ends in.    *)
LEMMA ClippedMore ==
    ASSUME PagesTyped, NEW f \in Seq(Entries), NEW next, NEW end, Hand(f, next, end),
           NEW r
    PROVE  /\ Clipped(r) => Clipped(r)'
           /\ Len(f) # 0 /\ Moment(place[f[Len(f)]]) = Moment(place[r]) => Clipped(r)'
<1>1. PICK n \in Nat : n = Len(pages)
  BY DEF PagesTyped, PagesTypeOK
<1>2. /\ pages \in Seq(Seq(Entries)) /\ pages' = Append(pages, f) /\ place' = place
  BY DEF PagesTyped, PagesTypeOK, Hand
<1>3. /\ DOMAIN pages = 1 .. n /\ DOMAIN pages' = 1 .. n + 1
      /\ \A p \in 1 .. n : p \in 1 .. n + 1 /\ pages'[p] = pages[p]
      /\ n + 1 \in 1 .. n + 1 /\ pages'[n + 1] = f
  BY <1>1, <1>2
<1>4. ASSUME Clipped(r) PROVE Clipped(r)'
  BY <1>2, <1>3, <1>4 DEF Clipped
<1>5. ASSUME Len(f) # 0, Moment(place[f[Len(f)]]) = Moment(place[r]) PROVE Clipped(r)'
  <2>1. f # << >>
    BY <1>5
  <2> QED
    BY <1>2, <1>3, <1>5, <2>1 DEF Clipped
<1> QED
  BY <1>4, <1>5

LEMMA ThreadReadsOn ==
    ASSUME PagesTyped, ThreadRight, ReadMessages
    PROVE  PagesTyped' /\ ThreadRight'
<1> DEFINE older == {r \in PageRows : cursor.from = NoRow
                                        \/ place[r] < 2 * Moment(cursor.from.place)}
<1>1. /\ list.how = "moment" /\ PageSize \in Nat \ {0}
      /\ cursor \in Cursors /\ cursor.from \in [row : Nat, place : Nat]
  BY PagesBounds DEF PagesTyped, Cursors, ReadMessages
<1>2. PICK s \in Orders(older) :
        \/ /\ Len(First(s, PageSize)) = PageSize
           /\ Hand(First(s, PageSize),
                   [cursor EXCEPT !.from = Holding(First(s, PageSize)[PageSize])], FALSE)
        \/ /\ Len(First(s, PageSize)) # PageSize
           /\ Hand(First(s, PageSize), cursor, TRUE)
  BY DEF ReadMessages
<1>3. older \subseteq Entries /\ older \subseteq PageRows
  BY RowsAreEntries
<1>4. PICK f : f = First(s, PageSize)
  OBVIOUS
<1>5. /\ \A r : r \in older <=> r \in PageRows /\ ReadOlder(r)
  BY DEF ReadOlder
<1> HIDE DEF older
<1>6. IsFirstPage(f, older, PageSize)
  BY <1>1, <1>3, <1>4, FirstSpells
<1>7. /\ f \in Seq(older) /\ Len(f) \in Nat /\ Len(f) <= PageSize /\ Descends(f)
      /\ \A i \in 1 .. Len(f) : f[i] \in older
      /\ \A r : OnceOnPage(f, r)
      /\ Len(f) < PageSize => \A r \in older : OnPage(f, r)
      /\ \A r \in older : OnPage(f, r) \/ \A i \in 1 .. Len(f) : ~Ahead(r, f[i])
  BY <1>6 DEF IsFirstPage, Spells, OnceOnPage
<1>8. f \in Seq(Entries)
  BY <1>3, <1>7, SeqMonotonic
<1>9. \A r : OnPage(f, r) => r \in older
  BY <1>7 DEF OnPage
<1>10. PICK next, end : Hand(f, next, end)
  BY <1>2, <1>4
<1>11. ~ended /\ place' = place /\ stood' = stood /\ list' = list /\ PageRows' = PageRows
  BY <1>10 DEF Hand, pageGhosts, PageRows
<1>12. \A r : /\ ReadGiven(r)' <=> ReadGiven(r) \/ OnPage(f, r)
              /\ ReadTwice(r)' => ReadTwice(r) \/ (ReadGiven(r) /\ OnPage(f, r))
  BY <1>7, <1>8, <1>10, Handed
<1>13. \A r : /\ Clipped(r) => Clipped(r)'
              /\ Len(f) # 0 /\ Moment(place[f[Len(f)]]) = Moment(place[r]) => Clipped(r)'
  BY <1>8, <1>10, ClippedMore
<1>14. \A r \in stood : r \in PageRows /\ r \in Entries /\ place[r] \in Nat
  BY RowsAreEntries
<1>15. /\ \A r \in Entries : ReadGiven(r) => r \in PageRows
       /\ \A r \in stood : /\ ~ReadTwice(r)
                           /\ ReadGiven(r) \/ Clipped(r) \/ ReadOlder(r)
                           /\ ~(ReadGiven(r) /\ ReadOlder(r))
  BY <1>1, <1>11 DEF ThreadRight
<1>16. \A r \in stood : ~ReadTwice(r)'
  BY <1>5, <1>9, <1>12, <1>15
<1>17. \A r \in Entries : ReadGiven(r)' => r \in PageRows'
  BY <1>5, <1>9, <1>11, <1>12, <1>15
<1>18. CASE Len(f) # PageSize /\ Hand(f, cursor, TRUE)
  <2>1. PagesTyped'
    BY <1>1, <1>8, <1>18, HandTyped
  <2>2. ended' = TRUE
    BY <1>18 DEF Hand
  <2>3. \A r \in stood : ReadGiven(r)' \/ Clipped(r)'
    <3>1. \A r \in older : OnPage(f, r)
      BY <1>1, <1>7, <1>18
    <3> QED
      BY <1>5, <1>12, <1>13, <1>14, <1>15, <3>1
  <2> QED
    BY <1>11, <1>16, <1>17, <2>1, <2>2, <2>3 DEF ThreadRight
<1>19. CASE /\ Len(f) = PageSize
            /\ Hand(f, [cursor EXCEPT !.from = Holding(f[PageSize])], FALSE)
  <2> DEFINE next2 == [cursor EXCEPT !.from = Holding(f[PageSize])]
  <2>1. PICK q \in older : q = f[PageSize]
    BY <1>1, <1>7, <1>19
  <2>2. q \in Entries /\ place[q] \in Nat
    BY <1>3, <2>1, RowsAreEntries
  <2>3. next2 \in Cursors /\ next2.from = Holding(q)
    BY <1>1, <2>1, <2>2, HoldingType DEF Cursors
  <2> HIDE DEF next2
  <2>4. Hand(f, next2, FALSE)
    BY <1>19 DEF next2
  <2>5. PagesTyped'
    BY <1>8, <2>3, <2>4, HandTyped
  <2>6. ended' = FALSE /\ cursor' = next2
    BY <2>4 DEF Hand
  <2>7. \A r : ReadOlder(r)' <=> place[r] < 2 * Moment(place[q])
    BY <1>11, <2>2, <2>3, <2>6, HoldingType DEF ReadOlder, Moment
  <2>8. ~list.byId /\ ~list.oldest
    BY <1>1, ListKinds DEF PagesTyped, PagesTypeOK
  <2>9. \A r \in older : OnPage(f, r) \/ place[r] <= place[q]
    <3>1. ASSUME NEW r \in older, ~OnPage(f, r) PROVE place[r] <= place[q]
      <4>1. ~Ahead(r, q)
        BY <1>1, <1>7, <1>19, <2>1, <3>1
      <4>2. place[r] \in Nat
        BY <1>3, RowsAreEntries
      <4> QED
        BY <2>2, <2>8, <4>1, <4>2 DEF Ahead
    <3> QED
      BY <3>1
  <2>10. \A r : OnPage(f, r) => place[q] <= place[r] /\ place[r] \in Nat
    <3>1. ASSUME NEW r, OnPage(f, r) PROVE place[q] <= place[r] /\ place[r] \in Nat
      <4>1. PICK i \in 1 .. Len(f) : f[i] = r
        BY <3>1 DEF OnPage
      <4>2. r = q \/ ~Ahead(q, r)
        <5>1. i = PageSize \/ i < PageSize
          BY <1>1, <1>19, <4>1
        <5> QED
          BY <1>1, <1>19, <2>1, <4>1, <5>1, <1>7 DEF Descends
      <4>3. place[r] \in Nat
        BY <1>3, <1>9, <3>1, RowsAreEntries
      <4> QED
        BY <2>2, <2>8, <4>2, <4>3 DEF Ahead
    <3> QED
      BY <3>1
  <2>11. \A r \in stood : ReadGiven(r)' \/ Clipped(r)' \/ ReadOlder(r)'
    <3>1. ASSUME NEW r \in stood, ~ReadGiven(r)', ~Clipped(r)' PROVE ReadOlder(r)'
      <4>1. r \in older /\ ~OnPage(f, r) /\ Moment(place[r]) # Moment(place[q])
        BY <1>1, <1>5, <1>12, <1>13, <1>14, <1>15, <1>19, <2>1, <3>1
      <4>2. place[r] <= place[q] /\ place[r] \in Nat
        BY <1>14, <2>9, <4>1
      <4>3. ~(place[q] < place[r])
        BY <2>2, <4>2
      <4>4. place[r] < 2 * Moment(place[q])
        BY <2>2, <4>1, <4>2, <4>3, MomentBounds
      <4> QED
        BY <2>7, <4>4
    <3> QED
      BY <3>1
  <2>12. \A r \in stood : ~(ReadGiven(r)' /\ ReadOlder(r)')
    <3>1. ASSUME NEW r \in stood, ReadGiven(r)', ReadOlder(r)' PROVE FALSE
      <4>1. place[r] < 2 * Moment(place[q]) /\ place[r] \in Nat
        BY <1>14, <2>7, <3>1
      <4>2. 2 * Moment(place[q]) <= place[q] /\ Moment(place[q]) \in Nat
        BY <2>2, MomentBounds
      <4>3. place[r] < place[q]
        BY <2>2, <4>1, <4>2
      <4>4. CASE OnPage(f, r)
        BY <2>2, <2>10, <4>1, <4>3, <4>4
      <4>5. CASE ReadGiven(r)
        <5>1. ~ReadOlder(r)
          BY <1>15, <4>5
        <5>2. ReadOlder(q)
          BY <1>5, <2>1
        <5>3. cursor.from # NoRow /\ cursor.from.place \in Nat
          BY <1>1, <5>1 DEF ReadOlder
        <5>4. PICK m \in Nat : m = Moment(cursor.from.place)
          BY <5>3, MomentBounds
        <5>5. place[q] < 2 * m /\ ~(place[r] < 2 * m)
          BY <5>1, <5>2, <5>3, <5>4 DEF ReadOlder
        <5> QED
          BY <2>2, <4>1, <4>3, <5>4, <5>5
      <4> QED
        BY <1>12, <3>1, <4>4, <4>5
    <3> QED
      BY <3>1
  <2> QED
    BY <1>11, <1>16, <1>17, <2>5, <2>6, <2>11, <2>12 DEF ThreadRight
<1> QED
  BY <1>2, <1>4, <1>18, <1>19

(* A part of a page, and what is on it.                                    *)
IsPart(f, g, a, b) ==
    /\ f \in Seq(Entries)
    /\ Len(f) = IF a <= b THEN b - a + 1 ELSE 0
    /\ \A r : OnPage(f, r) <=> \E i \in a .. b : g[i] = r
    /\ \A r : OnceOnPage(g, r) => OnceOnPage(f, r)

LEMMA PartHolds ==
    ASSUME NEW g \in Seq(Entries), NEW a \in Nat \ {0}, NEW b \in Nat, b <= Len(g),
           NEW f, f = SubSeq(g, a, b)
    PROVE  IsPart(f, g, a, b)
<1>1. \A i \in a .. b : i \in 1 .. Len(g) /\ g[i] \in Entries
  OBVIOUS
<1>2. /\ f \in Seq(Entries)
      /\ Len(f) = IF a <= b THEN b - a + 1 ELSE 0
      /\ \A i \in 1 .. b - a + 1 : f[i] = g[a + i - 1]
  BY <1>1, SubSeqProperties
<1>3. \A i \in 1 .. Len(f) : a + i - 1 \in a .. b /\ f[i] = g[a + i - 1]
  <2>1. \A i \in 1 .. Len(f) : i \in 1 .. b - a + 1
    BY <1>2
  <2>2. \A i \in 1 .. b - a + 1 : a + i - 1 \in a .. b
    OBVIOUS
  <2> QED
    BY <1>2, <2>1, <2>2
<1>4. \A j \in a .. b : j - a + 1 \in 1 .. Len(f) /\ f[j - a + 1] = g[j]
  <2>1. ASSUME NEW j \in a .. b PROVE j - a + 1 \in 1 .. Len(f) /\ f[j - a + 1] = g[j]
    <3>1. Len(f) = b - a + 1 /\ j - a + 1 \in 1 .. b - a + 1 /\ a + (j - a + 1) - 1 = j
      BY <1>2
    <3> QED
      BY <1>3, <3>1
  <2> QED
    BY <2>1
<1>5. ASSUME NEW r PROVE OnPage(f, r) <=> \E i \in a .. b : g[i] = r
  BY <1>3, <1>4 DEF OnPage
<1>6. ASSUME NEW r, OnceOnPage(g, r), NEW i \in 1 .. Len(f), NEW j \in 1 .. Len(f),
             f[i] = r, f[j] = r
      PROVE  i = j
  <2>1. a + i - 1 = a + j - 1
    BY <1>1, <1>3, <1>6 DEF OnceOnPage
  <2>2. i \in Int /\ j \in Int
    BY <1>2
  <2> QED
    BY <2>1, <2>2
<1>7. ASSUME NEW r, OnceOnPage(g, r) PROVE OnceOnPage(f, r)
  BY <1>6, <1>7 DEF OnceOnPage
<1> HIDE DEF OnceOnPage, OnPage
<1> QED
  BY <1>2, <1>5, <1>7 DEF IsPart

Leader == IF list.mineFirst THEN {Mine} ELSE {}

(* The reader's own review leads; nothing else comes or goes by it.        *)
LEMMA LedHolds ==
    ASSUME PagesTyped, NEW g \in Seq(Entries), \A r : OnceOnPage(g, r)
    PROVE  /\ Led(g) \in Seq(Entries)
           /\ \A r : OnPage(g, r) => OnPage(Led(g), r)
           /\ \A r : r \notin Leader => OnceOnPage(Led(g), r)
                                        /\ (OnPage(Led(g), r) => OnPage(g, r))
<1> DEFINE mine == {i \in DOMAIN g : g[i] = Mine}
           k == CHOOSE i \in mine : TRUE
           t == IF mine = {} THEN g ELSE RemoveAt(g, k)
<1>1. Led(g) = IF list.mineFirst /\ cursor.skip = 0 /\ Mine \in PageRows
               THEN <<Mine>> \o t ELSE g
  BY DEF Led
<1>2. Len(g) \in Nat /\ DOMAIN g = 1 .. Len(g)
  OBVIOUS
<1>3. mine # {} => k \in 1 .. Len(g) /\ g[k] = Mine
  BY <1>2
<1>4. /\ t \in Seq(Entries)
      /\ \A r : OnPage(t, r) => OnPage(g, r)
      /\ \A r : OnPage(g, r) => OnPage(t, r) \/ r = Mine
      /\ \A r : OnceOnPage(t, r)
  <2>1. CASE mine = {}
    BY <2>1
  <2>2. CASE mine # {}
    <3> HIDE DEF mine, k
    <3>1. PICK n \in Nat : n = Len(g)
      BY <1>2
    <3>2. PICK j \in 1 .. n : n = Len(g) /\ j = k /\ g[j] = Mine
      BY <1>2, <1>3, <2>2, <3>1
    <3>3. PICK u, v : u = SubSeq(g, 1, j - 1) /\ v = SubSeq(g, j + 1, n)
      OBVIOUS
    <3>4. t = u \o v
      BY <2>2, <3>2, <3>3 DEF RemoveAt
    <3>5. /\ u \in Seq(Entries)
          /\ \A r : OnPage(u, r) <=> \E i \in 1 .. j - 1 : g[i] = r
          /\ \A r : OnceOnPage(u, r)
      <4>1. j - 1 \in Nat /\ j - 1 <= Len(g) /\ 1 \in Nat \ {0}
        BY <3>2
      <4>2. IsPart(u, g, 1, j - 1)
        BY <3>3, <4>1, PartHolds
      <4> QED
        BY <4>2 DEF IsPart
    <3>6. /\ v \in Seq(Entries)
          /\ \A r : OnPage(v, r) <=> \E i \in j + 1 .. n : g[i] = r
          /\ \A r : OnceOnPage(v, r)
      <4>1. j + 1 \in Nat \ {0} /\ n <= Len(g)
        BY <3>2
      <4>2. IsPart(v, g, j + 1, n)
        BY <3>3, <4>1, PartHolds
      <4> QED
        BY <4>2 DEF IsPart
    <3>7. \A r : ~(OnPage(u, r) /\ OnPage(v, r))
      <4>1. ASSUME NEW r, NEW i \in 1 .. j - 1, NEW m \in j + 1 .. n,
                   g[i] = r, g[m] = r
            PROVE  FALSE
        <5>1. i \in 1 .. Len(g) /\ m \in 1 .. Len(g) /\ i # m
          BY <3>2
        <5> QED
          BY <4>1, <5>1 DEF OnceOnPage
      <4>2. ASSUME NEW r, OnPage(u, r), OnPage(v, r) PROVE FALSE
        <5>1. PICK i \in 1 .. j - 1 : g[i] = r
          BY <3>5, <4>2
        <5>2. PICK m \in j + 1 .. n : g[m] = r
          BY <3>6, <4>2
        <5> QED
          BY <4>1, <5>1, <5>2
      <4> QED
        BY <4>2
    <3>8. \A i \in 1 .. n : i \in 1 .. j - 1 \/ i = j \/ i \in j + 1 .. n
      BY <3>2
    <3>9. (\A i \in 1 .. j - 1 : i \in 1 .. n) /\ (\A i \in j + 1 .. n : i \in 1 .. n)
      BY <3>2
    <3>10. \A r : OnPage(g, r) <=> OnPage(u, r) \/ r = Mine \/ OnPage(v, r)
      BY <3>2, <3>5, <3>6, <3>8, <3>9 DEF OnPage
    <3> HIDE DEF t
    <3>11. /\ t \in Seq(Entries)
           /\ \A r : OnPage(t, r) <=> OnPage(u, r) \/ OnPage(v, r)
           /\ \A r : OnceOnPage(t, r)
      <4>1. u \in Seq(Entries) /\ v \in Seq(Entries)
        BY <3>5, <3>6
      <4>2. /\ t \in Seq(Entries)
            /\ \A r : OnPage(t, r) <=> OnPage(u, r) \/ OnPage(v, r)
            /\ \A r : OnceOnPage(u, r) /\ OnceOnPage(v, r)
                         /\ ~(OnPage(u, r) /\ OnPage(v, r)) => OnceOnPage(t, r)
        BY <3>4, <4>1, ConcatHolds
      <4> QED
        BY <3>5, <3>6, <3>7, <4>2
    <3> QED
      BY <3>10, <3>11
  <2> QED
    BY <2>1, <2>2
<1> HIDE DEF mine, k, t
<1>5. CASE list.mineFirst /\ cursor.skip = 0 /\ Mine \in PageRows
  <2>1. PICK one : one = <<Mine>>
    OBVIOUS
  <2>2. /\ one \in Seq(Entries)
        /\ \A r : OnPage(one, r) <=> r = Mine
        /\ \A r : OnceOnPage(one, r)
    <3>1. Mine \in Entries
      BY <1>5, RowsAreEntries
    <3>2. one \in Seq(Entries) /\ Len(one) = 1 /\ one[1] = Mine
      BY <2>1, <3>1
    <3> QED
      BY <3>2 DEF OnPage, OnceOnPage
  <2>3. Led(g) = one \o t
    BY <1>1, <1>5, <2>1
  <2>4. PICK f : f = one \o t
    OBVIOUS
  <2>5. /\ f \in Seq(Entries)
        /\ \A r : OnPage(f, r) <=> r = Mine \/ OnPage(t, r)
        /\ \A r : r # Mine => OnceOnPage(f, r)
    BY <1>4, <2>2, <2>4, ConcatHolds
  <2>6. \A r : r \notin Leader => r # Mine
    BY <1>5 DEF Leader
  <2> QED
    BY <1>4, <2>3, <2>4, <2>5, <2>6
<1>6. CASE ~(list.mineFirst /\ cursor.skip = 0 /\ Mine \in PageRows)
  BY <1>1, <1>6
<1> QED
  BY <1>5, <1>6

RowsAhead(r) == {q \in PageRows : Ahead(q, r)}
RowAt(r) == Cardinality(RowsAhead(r)) + 1

LEMMA RowAtType ==
    ASSUME PagesTyped
    PROVE  \A r : RowsAhead(r) \in SUBSET Entries /\ RowAt(r) \in Nat \ {0}
<1>1. ASSUME NEW r PROVE RowsAhead(r) \in SUBSET Entries /\ RowAt(r) \in Nat \ {0}
  <2>1. RowsAhead(r) \in SUBSET Entries
    BY RowsAreEntries DEF RowsAhead
  <2>2. Cardinality(RowsAhead(r)) \in Nat
    BY <2>1, EntriesFinite
  <2> QED
    BY <2>1, <2>2 DEF RowAt
<1> QED
  BY <1>1

(* Whatever order the query gives, a row that shares its place with no     *)
(* other is where the rows ahead of it put it; and no row is further down  *)
(* than there are rows.                                                    *)
LEMMA RowIsAt ==
    ASSUME PagesTyped, NEW s \in Orders(PageRows), NEW r \in PageRows
    PROVE  /\ RowAt(r) <= Len(s)
           /\ r \notin Tied => RowAt(r) \in 1 .. Len(s) /\ s[RowAt(r)] = r
<1>1. PageRows \in SUBSET Entries /\ r \in Entries
  BY RowsAreEntries
<1>2. /\ Spells(s, PageRows) /\ Descends(s) /\ Len(s) = Cardinality(PageRows)
      /\ \A q \in PageRows : \E i \in 1 .. Len(s) : s[i] = q
  BY <1>1, OrdersSpell
<1>3. PICK n \in Nat : n = Len(s) /\ n = Cardinality(PageRows)
  BY <1>2 DEF Spells
<1>4. /\ \A i \in 1 .. n : s[i] \in PageRows
      /\ \A i, j \in 1 .. n : s[i] = s[j] => i = j
      /\ \A i, j \in 1 .. n : i < j => ~Ahead(s[j], s[i])
  BY <1>2, <1>3 DEF Spells, Descends
<1>5. PICK k \in 1 .. n : s[k] = r
  BY <1>2, <1>3
<1>6. RowAt(r) <= n
  <2>1. RowsAhead(r) \in SUBSET (PageRows \ {r})
    BY <1>1, AheadOrders DEF RowsAhead
  <2>2. /\ IsFiniteSet(PageRows) /\ IsFiniteSet(PageRows \ {r})
        /\ Cardinality(PageRows \ {r}) = n - 1
    BY <1>1, <1>3, EntriesFinite, FS_RemoveElement
  <2>3. Cardinality(RowsAhead(r)) <= n - 1
    BY <2>1, <2>2, FS_Subset
  <2>4. Cardinality(RowsAhead(r)) \in Nat
    BY <1>1, <2>1, EntriesFinite
  <2> QED
    BY <2>3, <2>4 DEF RowAt
<1>7. ASSUME r \notin Tied PROVE RowAt(r) = k
  <2> DEFINE g == [i \in 1 .. k - 1 |-> s[i]]
  <2>1. ASSUME NEW q \in RowsAhead(r) PROVE \E i \in 1 .. k - 1 : s[i] = q
    <3>1. q \in PageRows /\ Ahead(q, r)
      BY DEF RowsAhead
    <3>2. PICK i \in 1 .. n : s[i] = q
      BY <1>2, <1>3, <3>1
    <3>3. i # k
      BY <1>1, <1>5, <3>1, <3>2, AheadOrders
    <3>4. ~(k < i)
      BY <1>4, <1>5, <3>1, <3>2
    <3> QED
      BY <3>2, <3>3, <3>4
  <2>2. ASSUME NEW i \in 1 .. k - 1 PROVE s[i] \in RowsAhead(r)
    <3>1. i \in 1 .. n /\ i < k
      OBVIOUS
    <3>2. s[i] \in PageRows /\ s[i] # r /\ ~Ahead(r, s[i])
      BY <1>4, <1>5, <3>1
    <3>3. s[i] \in Entries
      BY <1>1, <3>2
    <3>4. list.byId \/ place[r] # place[s[i]]
      BY <1>7, <3>2, <3>3 DEF Tied
    <3>5. Ahead(s[i], r)
      BY <1>1, <3>2, <3>3, <3>4, AheadOrders
    <3> QED
      BY <3>2, <3>5 DEF RowsAhead
  <2>3. \A i, j \in 1 .. k - 1 : s[i] = s[j] => i = j
    <3>1. \A i \in 1 .. k - 1 : i \in 1 .. n
      OBVIOUS
    <3> QED
      BY <1>4, <3>1
  <2>4. /\ \A i \in 1 .. k - 1 : g[i] = s[i]
        /\ g \in [1 .. k - 1 -> RowsAhead(r)]
    BY <2>2
  <2> HIDE DEF g
  <2>5. g \in Bijection(1 .. k - 1, RowsAhead(r))
    BY <2>1, <2>3, <2>4 DEF Bijection, Injection, Surjection, IsInjective
  <2>6. IsFiniteSet(1 .. k - 1) /\ Cardinality(1 .. k - 1) = k - 1
    <3>1. Cardinality(1 .. k - 1) = IF 1 > k - 1 THEN 0 ELSE k - 1 - 1 + 1
      BY FS_Interval
    <3> QED
      BY <3>1, FS_Interval
  <2>7. Cardinality(RowsAhead(r)) = k - 1
    BY <2>5, <2>6, FS_Bijection DEF ExistsBijection
  <2> QED
    BY <2>7 DEF RowAt
<1> QED
  BY <1>3, <1>5, <1>6, <1>7

Sure == stood \ alike
PassedBy == {r \in Sure : ~ReadGiven(r) /\ RowAt(r) <= cursor.skip}
Again == {r \in Sure \ Leader : ReadTwice(r) \/ (ReadGiven(r) /\ RowAt(r) > cursor.skip)}

(* A row is passed over, or read and still ahead, only for a row that left *)
(* or came; what is passed for good was counted when it happened.          *)
OffsetRight == list.how = "offset" =>
    /\ Tied \subseteq alike
    /\ Cardinality(PassedBy) <= left
    /\ Cardinality(Again) <= came
    /\ ended => \A r \in PageRows : RowAt(r) <= cursor.skip

LEMMA SureRows ==
    ASSUME PagesTyped
    PROVE  /\ Sure \subseteq PageRows /\ Sure \subseteq Entries
           /\ PassedBy \in SUBSET Entries /\ Again \in SUBSET Entries
           /\ IsFiniteSet(PassedBy) /\ Cardinality(PassedBy) \in Nat
           /\ IsFiniteSet(Again) /\ Cardinality(Again) \in Nat
<1>1. Sure \subseteq PageRows /\ Sure \subseteq Entries
  BY RowsAreEntries DEF Sure
<1>2. PassedBy \in SUBSET Entries /\ Again \in SUBSET Entries
  BY <1>1 DEF PassedBy, Again
<1> QED
  BY <1>1, <1>2, EntriesFinite

(* A set that grows by no more than one row.                               *)
LEMMA GrowsByOne ==
    ASSUME NEW A, NEW B, IsFiniteSet(A), IsFiniteSet(B)
    PROVE  /\ B \subseteq A => Cardinality(B) <= Cardinality(A)
           /\ \A x : B \subseteq A \cup {x} => Cardinality(B) <= Cardinality(A) + 1
<1>1. ASSUME B \subseteq A PROVE Cardinality(B) <= Cardinality(A)
  BY <1>1, FS_Subset
<1>2. ASSUME NEW x, B \subseteq A \cup {x} PROVE Cardinality(B) <= Cardinality(A) + 1
  <2>1. /\ IsFiniteSet(A \cup {x})
        /\ Cardinality(A \cup {x}) = IF x \in A THEN Cardinality(A) ELSE Cardinality(A) + 1
    BY FS_AddElement
  <2>2. Cardinality(B) <= Cardinality(A \cup {x})
    BY <1>2, <2>1, FS_Subset
  <2>3. Cardinality(A) \in Nat /\ Cardinality(B) \in Nat
    BY FS_CardinalityType
  <2> QED
    BY <2>1, <2>2, <2>3
<1> QED
  BY <1>1, <1>2

(* The page of an offset: the rows whose number falls in it.               *)
LEMMA OffsetPage ==
    ASSUME PagesTyped, NEW s \in Orders(PageRows), NEW taken,
           taken = SubSeq(s, cursor.skip + 1,
                         IF Len(s) < cursor.skip + PageSize THEN Len(s)
                         ELSE cursor.skip + PageSize)
    PROVE  /\ taken \in Seq(Entries) /\ Len(taken) \in Nat
           /\ \A r : OnceOnPage(taken, r)
           /\ \A r \in PageRows \ Tied :
                OnPage(taken, r) <=> cursor.skip < RowAt(r) /\ RowAt(r) <= cursor.skip + PageSize
           /\ Len(taken) < PageSize =>
                \A r \in PageRows : RowAt(r) <= cursor.skip + PageSize
<1>1. PICK a \in Nat, l \in Nat \ {0} : a = cursor.skip /\ l = PageSize
  BY PagesBounds DEF PagesTyped, Cursors
<1>2. PageRows \in SUBSET Entries
  BY RowsAreEntries
<1>3. /\ s \in Seq(PageRows) /\ Len(s) \in Nat
      /\ \A i \in 1 .. Len(s) : s[i] \in PageRows
      /\ \A i, j \in 1 .. Len(s) : s[i] = s[j] => i = j
  BY <1>2, OrdersSpell DEF Spells
<1>4. s \in Seq(Entries) /\ \A r : OnceOnPage(s, r)
  BY <1>2, <1>3, SeqMonotonic DEF OnceOnPage
<1>5. PICK b \in Nat : /\ b = IF Len(s) < a + l THEN Len(s) ELSE a + l
                       /\ b <= Len(s) /\ b <= a + l
                       /\ b < a + l => b = Len(s)
  <2>1. PICK n \in Nat : n = Len(s)
    BY <1>3
  <2>2. PICK m \in Nat : m = a + l
    BY <1>1
  <2>3. CASE n < m
    BY <2>1, <2>2, <2>3
  <2>4. CASE ~(n < m)
    <3>1. m <= n /\ m <= m /\ ~(m < m)
      BY <2>1, <2>2, <2>4
    <3> QED
      BY <2>1, <2>2, <2>4, <3>1
  <2> QED
    BY <2>3, <2>4
<1>6. IsPart(taken, s, a + 1, b)
  <2>1. a + 1 \in Nat \ {0}
    BY <1>1
  <2>2. taken = SubSeq(s, a + 1, b)
    BY <1>1, <1>5
  <2> QED
    BY <1>4, <1>5, <2>1, <2>2, PartHolds
<1>7. /\ taken \in Seq(Entries)
      /\ Len(taken) = IF a + 1 <= b THEN b - (a + 1) + 1 ELSE 0
      /\ \A r : OnPage(taken, r) <=> \E i \in (a + 1) .. b : s[i] = r
      /\ \A r : OnceOnPage(taken, r)
  BY <1>4, <1>6 DEF IsPart
<1>8. ASSUME NEW r \in PageRows \ Tied
      PROVE  OnPage(taken, r) <=> a < RowAt(r) /\ RowAt(r) <= a + l
  <2>1. PICK j \in 1 .. Len(s) : j = RowAt(r) /\ s[j] = r
    BY RowIsAt
  <2>2. ASSUME a < j, j <= a + l PROVE OnPage(taken, r)
    <3>1. j \in (a + 1) .. b
      BY <1>1, <1>3, <1>5, <2>2
    <3> QED
      BY <1>7, <2>1, <3>1
  <2>3. ASSUME OnPage(taken, r) PROVE a < j /\ j <= a + l
    <3>1. PICK i \in (a + 1) .. b : s[i] = r
      BY <1>7, <2>3
    <3>2. i \in 1 .. Len(s)
      BY <1>1, <1>3, <1>5
    <3>3. i = j
      BY <1>3, <2>1, <3>1, <3>2
    <3> QED
      BY <1>1, <1>5, <3>1, <3>3
  <2> QED
    BY <2>1, <2>2, <2>3
<1>9. ASSUME Len(taken) < l, NEW r \in PageRows PROVE RowAt(r) <= a + l
  <2>1. b < a + l
    <3>1. PICK n \in Nat : n = Len(taken) /\ n = IF a + 1 <= b THEN b - (a + 1) + 1 ELSE 0
      BY <1>7
    <3>2. n < l
      BY <1>9, <3>1
    <3>3. a \in Nat /\ l \in Nat /\ b \in Nat /\ 0 < l
      BY <1>1
    <3>4. ASSUME a + l <= b PROVE FALSE
      <4>1. a + 1 <= b
        BY <3>3, <3>4
      <4>2. n = b - (a + 1) + 1
        BY <3>1, <4>1
      <4> QED
        BY <3>2, <3>3, <3>4, <4>2
    <3> QED
      BY <3>3, <3>4
  <2>2. RowAt(r) <= Len(s) /\ RowAt(r) \in Nat
    BY RowIsAt, RowAtType
  <2> QED
    BY <1>1, <1>3, <1>5, <2>1, <2>2
<1>10. Len(taken) \in Nat
  BY <1>7
<1> QED
  BY <1>1, <1>7, <1>8, <1>9, <1>10

LEMMA OffsetReadsOn ==
    ASSUME PagesTyped, OffsetRight, ReadOffset
    PROVE  PagesTyped' /\ OffsetRight'
<1>1. /\ list.how = "offset" /\ ~ended /\ cursor \in Cursors
      /\ cursor.skip \in Nat /\ PageSize \in Nat
  BY PagesBounds DEF PagesTyped, Cursors, ReadOffset, Hand
<1>2. PICK s \in Orders(PageRows) :
        LET taken == SubSeq(s, cursor.skip + 1,
                           IF Len(s) < cursor.skip + PageSize THEN Len(s)
                           ELSE cursor.skip + PageSize)
        IN  Hand(Led(taken), [cursor EXCEPT !.skip = @ + PageSize], Len(taken) < PageSize)
  BY DEF ReadOffset
<1>3. PICK taken : taken = SubSeq(s, cursor.skip + 1,
                                IF Len(s) < cursor.skip + PageSize THEN Len(s)
                                ELSE cursor.skip + PageSize)
  OBVIOUS
<1>4. Hand(Led(taken), [cursor EXCEPT !.skip = @ + PageSize], Len(taken) < PageSize)
  BY <1>2, <1>3
<1>5. /\ taken \in Seq(Entries) /\ Len(taken) \in Nat
      /\ \A r : OnceOnPage(taken, r)
      /\ \A r \in PageRows \ Tied :
           OnPage(taken, r) <=> cursor.skip < RowAt(r) /\ RowAt(r) <= cursor.skip + PageSize
      /\ Len(taken) < PageSize => \A r \in PageRows : RowAt(r) <= cursor.skip + PageSize
  BY <1>3, OffsetPage
<1>6. PICK f : f = Led(taken)
  OBVIOUS
<1>7. /\ f \in Seq(Entries)
      /\ \A r : OnPage(taken, r) => OnPage(f, r)
      /\ \A r : r \notin Leader => OnceOnPage(f, r) /\ (OnPage(f, r) => OnPage(taken, r))
  BY <1>5, <1>6, LedHolds
<1>8. PICK next \in Cursors : /\ next = [cursor EXCEPT !.skip = @ + PageSize]
                              /\ next.skip = cursor.skip + PageSize
  <2>1. PICK n \in Nat : n = cursor.skip + PageSize
    BY <1>1
  <2>2. /\ [cursor EXCEPT !.skip = n] \in Cursors
        /\ [cursor EXCEPT !.skip = n].skip = n
    BY <1>1 DEF Cursors
  <2> QED
    BY <2>1, <2>2
<1>9. Hand(f, next, Len(taken) < PageSize)
  BY <1>4, <1>6, <1>8
<1>10. PagesTyped'
  <2>1. (Len(taken) < PageSize) \in BOOLEAN
    OBVIOUS
  <2> QED
    BY <1>7, <1>9, <2>1, HandTyped
<1>11. \A r : /\ ReadGiven(r)' <=> ReadGiven(r) \/ OnPage(f, r)
              /\ ReadTwice(r)' => ReadTwice(r) \/ (ReadGiven(r) /\ OnPage(f, r))
                                               \/ ~OnceOnPage(f, r)
  BY <1>7, <1>9, Handed
<1>12. /\ UNCHANGED <<list, place, stood, alike, left, came>>
       /\ cursor' = next /\ ended' = (Len(taken) < PageSize)
  BY <1>9 DEF Hand, pageGhosts
<1>13. /\ PageRows' = PageRows /\ Tied' = Tied /\ Sure' = Sure /\ Leader' = Leader
       /\ \A r : RowAt(r)' = RowAt(r)
  BY <1>12 DEF PageRows, Tied, Sure, Leader, RowAt, RowsAhead, Ahead
<1>14. Tied \subseteq alike /\ Cardinality(PassedBy) <= left /\ Cardinality(Again) <= came
  BY <1>1 DEF OffsetRight
<1>15. \A r \in Sure : r \in PageRows \ Tied /\ RowAt(r) \in Nat
  BY <1>14, SureRows, RowAtType DEF Sure
<1>16. PassedBy' \subseteq PassedBy
  <2>1. ASSUME NEW r \in Sure, ~ReadGiven(r)', RowAt(r) <= cursor.skip + PageSize
        PROVE  ~ReadGiven(r) /\ RowAt(r) <= cursor.skip
    <3>1. ~ReadGiven(r) /\ ~OnPage(taken, r)
      BY <1>7, <1>11, <2>1
    <3> QED
      BY <1>1, <1>5, <1>15, <2>1, <3>1
  <2>2. cursor'.skip = cursor.skip + PageSize
    BY <1>8, <1>12
  <2> QED
    BY <1>13, <2>1, <2>2 DEF PassedBy
<1>17. Again' \subseteq Again
  <2>1. ASSUME NEW r \in Sure \ Leader,
               ReadTwice(r)' \/ (ReadGiven(r)' /\ RowAt(r) > cursor.skip + PageSize)
        PROVE  ReadTwice(r) \/ (ReadGiven(r) /\ RowAt(r) > cursor.skip)
    <3>1. /\ r \in PageRows \ Tied /\ RowAt(r) \in Nat
          /\ OnceOnPage(f, r) /\ (OnPage(f, r) => OnPage(taken, r))
      BY <1>7, <1>15
    <3>2. OnPage(f, r) => cursor.skip < RowAt(r) /\ RowAt(r) <= cursor.skip + PageSize
      BY <1>5, <3>1
    <3>3. CASE ReadTwice(r)'
      BY <1>1, <1>11, <3>1, <3>2, <3>3
    <3>4. CASE ReadGiven(r)' /\ RowAt(r) > cursor.skip + PageSize
      BY <1>1, <1>11, <3>1, <3>2, <3>4
    <3> QED
      BY <2>1, <3>3, <3>4
  <2>2. cursor'.skip = cursor.skip + PageSize
    BY <1>8, <1>12
  <2> QED
    BY <1>13, <2>1, <2>2 DEF Again
<1>18. Cardinality(PassedBy') <= left' /\ Cardinality(Again') <= came'
  <2>1. /\ IsFiniteSet(PassedBy) /\ Cardinality(PassedBy) \in Nat
        /\ IsFiniteSet(Again) /\ Cardinality(Again) \in Nat
    BY SureRows
  <2>2. /\ IsFiniteSet(PassedBy') /\ Cardinality(PassedBy') <= Cardinality(PassedBy)
        /\ IsFiniteSet(Again') /\ Cardinality(Again') <= Cardinality(Again)
    BY <1>16, <1>17, <2>1, FS_Subset
  <2>3. Cardinality(PassedBy') \in Nat /\ Cardinality(Again') \in Nat
    BY <2>2, FS_CardinalityType
  <2>4. left \in Nat /\ came \in Nat
    BY DEF PagesTyped
  <2> QED
    BY <1>12, <1>14, <2>1, <2>2, <2>3, <2>4
<1>19. ended' => \A r \in PageRows' : RowAt(r)' <= cursor'.skip
  BY <1>5, <1>8, <1>12, <1>13
<1> QED
  BY <1>10, <1>12, <1>13, <1>14, <1>18, <1>19 DEF OffsetRight

(* One row comes, goes or moves: every other row keeps its number, give or *)
(* take one.                                                               *)
LEMMA RowsShift ==
    ASSUME PagesTyped, PagesTyped', list' = list, NEW x \in Entries,
           \A q \in Entries \ {x} : place'[q] = place[q],
           NEW r \in PageRows, r # x
    PROVE  /\ r \in PageRows'
           /\ RowAt(r)' <= RowAt(r) + 1 /\ RowAt(r) <= RowAt(r)' + 1
           /\ x \notin PageRows => RowAt(r) <= RowAt(r)'
           /\ x \notin PageRows' => RowAt(r)' <= RowAt(r)
<1>1. PICK A \in SUBSET Entries : A = RowsAhead(r)
  BY RowAtType
<1>2. PICK B \in SUBSET Entries : B = RowsAhead(r)'
  <2>1. RowsAhead(r)' \in SUBSET Entries
    BY DEF RowsAhead, PageRows
  <2> QED
    BY <2>1
<1>3. r \in Entries /\ place'[r] = place[r]
  BY RowsAreEntries
<1>4. ASSUME NEW q \in Entries, q # x PROVE q \in A <=> q \in B
  <2>1. place'[q] = place[q]
    BY <1>4
  <2>2. Ahead(q, r)' <=> Ahead(q, r)
    BY <1>3, <2>1 DEF Ahead
  <2>3. q \in PageRows' <=> q \in PageRows
    BY <2>1 DEF PageRows
  <2> QED
    BY <1>1, <1>2, <2>2, <2>3 DEF RowsAhead
<1>5. /\ A \subseteq B \cup {x} /\ B \subseteq A \cup {x}
      /\ x \notin PageRows => A \subseteq B
      /\ x \notin PageRows' => B \subseteq A
  BY <1>1, <1>2, <1>4 DEF RowsAhead
<1>6. /\ IsFiniteSet(A) /\ IsFiniteSet(B)
      /\ Cardinality(A) \in Nat /\ Cardinality(B) \in Nat
  BY EntriesFinite
<1>7. /\ Cardinality(A) <= Cardinality(B) + 1 /\ Cardinality(B) <= Cardinality(A) + 1
      /\ x \notin PageRows => Cardinality(A) <= Cardinality(B)
      /\ x \notin PageRows' => Cardinality(B) <= Cardinality(A)
  BY <1>5, <1>6, GrowsByOne
<1>8. RowAt(r) = Cardinality(A) + 1 /\ RowAt(r)' = Cardinality(B) + 1
  BY <1>1, <1>2 DEF RowAt
<1>9. r \in PageRows'
  BY <1>3 DEF PageRows
<1> QED
  BY <1>6, <1>7, <1>8, <1>9

LEMMA OffsetStirred ==
    ASSUME PagesTyped, OffsetRight, list.how = "offset", ~ended, PagesTyped',
           UNCHANGED <<list, cursor, pages, ended>>, NEW x \in Entries,
           \A q \in Entries \ {x} : place'[q] = place[q],
           stood' = stood \ {x}, alike \subseteq alike', Tied' \subseteq alike',
           \/ left' = left + 1 /\ came' = came + 1
           \/ left' = left /\ came' = came + 1 /\ x \notin PageRows
           \/ left' = left + 1 /\ came' = came /\ x \notin PageRows'
    PROVE  OffsetRight'
<1>1. Tied \subseteq alike /\ Cardinality(PassedBy) <= left /\ Cardinality(Again) <= came
  BY DEF OffsetRight
<1>2. left \in Nat /\ came \in Nat /\ cursor.skip \in Nat
  BY DEF PagesTyped, Cursors
<1>3. PICK s \in Orders(PageRows) : TRUE
  BY OrdersThere, RowsAreEntries
<1>4. PICK a \in Nat : a = cursor.skip /\ a = cursor'.skip
  BY <1>2
<1>5. ASSUME NEW r \in Sure'
      PROVE  /\ r \in Sure /\ RowAt(r) \in Nat /\ RowAt(r)' \in Nat
             /\ RowAt(r)' <= RowAt(r) + 1 /\ RowAt(r) <= RowAt(r)' + 1
             /\ x \notin PageRows => RowAt(r) <= RowAt(r)'
             /\ x \notin PageRows' => RowAt(r)' <= RowAt(r)
             /\ s[RowAt(r)] = r
  <2>1. r \in Sure /\ r # x
    BY DEF Sure
  <2>2. r \in PageRows /\ r \notin Tied
    BY <1>1, <2>1, SureRows DEF Sure
  <2>3. s[RowAt(r)] = r /\ RowAt(r) \in Nat
    BY <2>2, RowIsAt, RowAtType
  <2>4. RowAt(r)' \in Nat
    <3>1. RowsAhead(r)' \in SUBSET Entries
      BY DEF RowsAhead, PageRows
    <3>2. Cardinality(RowsAhead(r)') \in Nat
      BY <3>1, EntriesFinite
    <3> QED
      BY <3>2 DEF RowAt
  <2> QED
    BY <2>1, <2>2, <2>3, <2>4, RowsShift
<1>6. /\ \A r : (ReadGiven(r)' <=> ReadGiven(r)) /\ (ReadTwice(r)' <=> ReadTwice(r))
      /\ Leader' = Leader
  BY NotHanded DEF Leader
<1>7. /\ PassedBy' \subseteq PassedBy \cup {s[a + 1]}
      /\ x \notin PageRows => PassedBy' \subseteq PassedBy
  <2>1. ASSUME NEW r \in PassedBy'
        PROVE  /\ r \in PassedBy \/ r = s[a + 1]
               /\ x \notin PageRows => r \in PassedBy
    <3>1. r \in Sure' /\ ~ReadGiven(r) /\ RowAt(r)' <= a
      BY <1>4, <1>6 DEF PassedBy
    <3>2. r \in Sure /\ ~ReadGiven(r) /\ (r \in PassedBy <=> RowAt(r) <= a)
      BY <1>4, <1>5, <3>1 DEF PassedBy
    <3>3. RowAt(r) <= a \/ RowAt(r) = a + 1
      BY <1>4, <1>5, <3>1
    <3>4. x \notin PageRows => RowAt(r) <= a
      BY <1>4, <1>5, <3>1
    <3> QED
      BY <1>5, <3>1, <3>2, <3>3, <3>4
  <2> QED
    BY <2>1
<1>8. /\ Again' \subseteq Again \cup {s[a]}
      /\ x \notin PageRows' => Again' \subseteq Again
  <2>1. ASSUME NEW r \in Again'
        PROVE  /\ r \in Again \/ r = s[a]
               /\ x \notin PageRows' => r \in Again
    <3>1. /\ r \in Sure' /\ r \notin Leader
          /\ ReadTwice(r) \/ (ReadGiven(r) /\ RowAt(r)' > a)
      BY <1>4, <1>6 DEF Again
    <3>2. r \in Sure \ Leader
      BY <1>5, <3>1
    <3>3. r \in Again <=> ReadTwice(r) \/ (ReadGiven(r) /\ RowAt(r) > a)
      BY <1>4, <3>2 DEF Again
    <3>4. CASE ReadTwice(r)
      BY <3>3, <3>4
    <3>5. CASE ReadGiven(r) /\ RowAt(r)' > a
      <4>1. RowAt(r) > a \/ RowAt(r) = a
        BY <1>4, <1>5, <3>1, <3>5
      <4>2. x \notin PageRows' => RowAt(r) > a
        BY <1>4, <1>5, <3>1, <3>5
      <4> QED
        BY <1>5, <3>1, <3>3, <3>5, <4>1, <4>2
    <3> QED
      BY <3>1, <3>4, <3>5
  <2> QED
    BY <2>1
<1>9. /\ IsFiniteSet(PassedBy) /\ Cardinality(PassedBy) \in Nat
      /\ IsFiniteSet(Again) /\ Cardinality(Again) \in Nat
  BY SureRows
<1>10. /\ IsFiniteSet(PassedBy') /\ Cardinality(PassedBy') \in Nat
       /\ IsFiniteSet(Again') /\ Cardinality(Again') \in Nat
  <2>1. Sure' \subseteq Entries
    BY <1>5, SureRows
  <2>2. PassedBy' \in SUBSET Entries /\ Again' \in SUBSET Entries
    BY <2>1 DEF PassedBy, Again
  <2> QED
    BY <2>2, EntriesFinite
<1>11. /\ Cardinality(PassedBy') <= Cardinality(PassedBy) + 1
       /\ x \notin PageRows => Cardinality(PassedBy') <= Cardinality(PassedBy)
       /\ Cardinality(Again') <= Cardinality(Again) + 1
       /\ x \notin PageRows' => Cardinality(Again') <= Cardinality(Again)
  BY <1>7, <1>8, <1>9, <1>10, GrowsByOne
<1>12. Cardinality(PassedBy') <= left' /\ Cardinality(Again') <= came'
  BY <1>1, <1>2, <1>9, <1>10, <1>11
<1>13. ended' = FALSE
  BY DEF PagesTyped, PagesTypeOK
<1> QED
  BY <1>12, <1>13 DEF OffsetRight

(* What others do to one row: its place, and what is known of it.          *)
LEMMA StirMoves ==
    ASSUME PagesTyped, NEW x \in Entries, EntryComes(x) \/ EntryLeaves(x) \/ EntryMoves(x)
    PROVE  /\ ~ended /\ UNCHANGED <<list, cursor, pages, ended, watched, rewatched>>
           /\ PagesTyped' /\ \A q \in Entries \ {x} : place'[q] = place[q]
           /\ stood' = stood \ {x} /\ alike \subseteq alike' /\ Tied' \subseteq alike \cup Tied'
           /\ PageRows \subseteq PageRows' \cup {x}
<1>1. /\ ~ended /\ UNCHANGED <<list, cursor, pages, ended, watched, rewatched>>
      /\ stirs' \in 0 .. MaxStirs
  BY PagesBounds DEF PagesTyped, PagesTypeOK, EntryComes, EntryLeaves, EntryMoves, Stir
<1>2. PICK p \in 0 .. Top : place' = [place EXCEPT ![x] = p]
  BY PagesBounds DEF EntryComes, EntryLeaves, EntryMoves, NewPlaces
<1>3. /\ place \in [Entries -> 0 .. Top] /\ place' \in [Entries -> 0 .. Top]
      /\ \A q \in Entries \ {x} : place'[q] = place[q]
  BY <1>2 DEF PagesTyped, PagesTypeOK
<1>4. stood' = stood \ {x}
  <2>1. CASE EntryComes(x)
    <3>1. x \notin PageRows /\ stood' = stood
      BY <2>1 DEF EntryComes, PageRows
    <3> QED
      BY <3>1, RowsAreEntries
  <2>2. CASE EntryLeaves(x) \/ EntryMoves(x)
    BY <2>2 DEF EntryLeaves, EntryMoves
  <2> QED
    BY <2>1, <2>2
<1>5. /\ left \in Nat /\ came \in Nat /\ left' \in Nat /\ came' \in Nat
      /\ alike \subseteq alike'
  BY DEF PagesTyped, EntryComes, EntryLeaves, EntryMoves
<1>6. PageRows \subseteq PageRows' \cup {x}
  BY <1>3 DEF PageRows
<1>7. stood' \subseteq PageRows'
  BY <1>4, <1>6, RowsAreEntries
<1>8. PagesTyped'
  BY <1>1, <1>3, <1>5, <1>7 DEF PagesTyped, PagesTypeOK
<1> QED
  BY <1>1, <1>3, <1>4, <1>5, <1>6, <1>8

LEMMA ReelsStirred ==
    ASSUME PagesTyped, ReelsRight, NEW x \in Entries,
           EntryComes(x) \/ EntryLeaves(x) \/ EntryMoves(x)
    PROVE  ReelsRight'
<1>1. /\ ~ended /\ UNCHANGED <<list, cursor, pages, ended, watched, rewatched>>
      /\ \A q \in Entries \ {x} : place'[q] = place[q]
      /\ stood' = stood \ {x}
  BY StirMoves
<1>2. \A r : (ReadGiven(r)' <=> ReadGiven(r)) /\ (ReadTwice(r)' <=> ReadTwice(r))
  BY <1>1, NotHanded
<1>3. ASSUME NEW r \in stood' PROVE r \in stood /\ (ReadDue(r)' <=> ReadDue(r))
  <2>1. r \in stood /\ place'[r] = place[r]
    BY <1>1, RowsAreEntries
  <2>2. ReadPast(r)' <=> ReadPast(r)
    BY <1>1, <2>1 DEF ReadPast, Beyond
  <2> QED
    BY <1>1, <2>1, <2>2 DEF ReadDue
<1> QED
  BY <1>1, <1>2, <1>3 DEF ReelsRight

LEMMA ThreadStirred ==
    ASSUME PagesTyped, ThreadRight, NEW x \in Entries,
           EntryComes(x) \/ EntryLeaves(x) \/ EntryMoves(x)
    PROVE  ThreadRight'
<1>1. /\ ~ended /\ UNCHANGED <<list, cursor, pages, ended>>
      /\ \A q \in Entries \ {x} : place'[q] = place[q]
      /\ stood' = stood \ {x} /\ PageRows \subseteq PageRows' \cup {x}
  BY StirMoves
<1>2. CASE list.how = "moment"
  <2>1. x \notin PageRows
    <3>1. ~list.leaves /\ ~list.moves
      BY <1>2, ListKinds DEF PagesTyped, PagesTypeOK
    <3> QED
      BY <3>1 DEF EntryComes, EntryLeaves, EntryMoves, PageRows
  <2>2. \A r : (ReadGiven(r)' <=> ReadGiven(r)) /\ (ReadTwice(r)' <=> ReadTwice(r))
    BY <1>1, NotHanded
  <2>3. /\ \A r \in Entries : ReadGiven(r) => r \in PageRows
        /\ \A r \in stood : /\ ~ReadTwice(r)
                            /\ ReadGiven(r) \/ Clipped(r) \/ ReadOlder(r)
                            /\ ~(ReadGiven(r) /\ ReadOlder(r))
    BY <1>1, <1>2 DEF ThreadRight
  <2>4. \A r \in Entries : ReadGiven(r)' => r \in PageRows'
    BY <1>1, <2>1, <2>2, <2>3
  <2>5. ASSUME NEW r \in stood' PROVE r \in stood /\ place'[r] = place[r]
    BY <1>1, RowsAreEntries
  <2>6. ASSUME NEW r \in stood', Clipped(r) PROVE Clipped(r)'
    <3>1. PICK i \in DOMAIN pages : /\ pages[i] # << >>
                                    /\ Moment(place[pages[i][Len(pages[i])]])
                                         = Moment(place[r])
      BY <2>6 DEF Clipped
    <3>2. pages[i] \in Seq(Entries)
      BY <3>1 DEF PagesTyped, PagesTypeOK
    <3>3. PICK q \in Entries : q = pages[i][Len(pages[i])] /\ Len(pages[i]) \in DOMAIN pages[i]
      BY <3>1, <3>2, EmptySeq
    <3>4. <<i, Len(pages[i])>> \in Readings(q)
      BY <3>1, <3>3 DEF Readings
    <3>5. q # x
      BY <2>1, <2>3, <3>3, <3>4 DEF ReadGiven
    <3>6. Moment(place'[pages[i][Len(pages[i])]]) = Moment(place'[r])
      BY <1>1, <2>5, <3>1, <3>3, <3>5
    <3> QED
      BY <1>1, <3>1, <3>6 DEF Clipped
  <2>7. \A r \in stood' : ReadOlder(r)' <=> ReadOlder(r)
    BY <1>1, <2>5 DEF ReadOlder
  <2> QED
    BY <1>1, <2>2, <2>3, <2>4, <2>5, <2>6, <2>7 DEF ThreadRight
<1> QED
  BY <1>1, <1>2 DEF ThreadRight

(* A reel is watched between two pages: it may come again, but has come.   *)
LEMMA ReelsWatched ==
    ASSUME PagesTyped, ReelsRight, NEW x \in Entries, ReelWatched(x)
    PROVE  PagesTyped' /\ ReelsRight'
<1>1. /\ ~ended /\ UNCHANGED <<list, cursor, pages, ended, place, stood, left, came, alike>>
      /\ stirs' \in 0 .. MaxStirs /\ x \notin watched
      /\ watched' = watched \cup {x} /\ rewatched' = rewatched \cup {x}
  BY PagesBounds DEF PagesTyped, PagesTypeOK, ReelWatched, Stir
<1>2. PageRows' = PageRows
  BY <1>1 DEF PageRows
<1>3. PagesTyped'
  BY <1>1, <1>2 DEF PagesTyped, PagesTypeOK
<1>4. \A r : (ReadGiven(r)' <=> ReadGiven(r)) /\ (ReadTwice(r)' <=> ReadTwice(r))
  BY <1>1, NotHanded
<1>5. \A r : ReadPast(r)' <=> ReadPast(r)
  BY <1>1 DEF ReadPast, Beyond
<1>6. x \notin rewatched /\ cursor.phase \in {"u", "s", "a"}
  BY <1>1 DEF PagesTyped, PagesTypeOK
<1>7. ASSUME list.how = "keyset", NEW r \in stood
      PROVE  /\ ReadTwice(r) => r \in rewatched' /\ cursor.phase = "s"
             /\ ReadDue(r)' => ReadGiven(r)
             /\ ReadGiven(r) => ReadDue(r)' \/ (r \in rewatched' /\ cursor.phase # "a")
  <2>1. /\ ReadTwice(r) => r \in rewatched /\ cursor.phase = "s"
        /\ ReadDue(r) => ReadGiven(r)
        /\ ReadGiven(r) => ReadDue(r) \/ (r \in rewatched /\ cursor.phase # "a")
    BY <1>1, <1>7 DEF ReelsRight
  <2>2. ReadDue(r)' <=> \/ cursor.phase = "a" /\ ReadPast(r)
                        \/ cursor.phase = "u" /\ ReadPast(r) /\ r \notin watched'
                        \/ cursor.phase = "s" /\ (ReadPast(r) \/ r \notin watched')
    BY <1>1, <1>5 DEF ReadDue
  <2> QED
    BY <1>1, <1>6, <2>1, <2>2 DEF ReadDue
<1> QED
  BY <1>1, <1>3, <1>4, <1>7 DEF ReelsRight

PagesRight == PagesTyped /\ ReelsRight /\ ThreadRight /\ OffsetRight

LEMMA PagesStart == PagesInit => PagesRight
<1> SUFFICES ASSUME PagesInit PROVE PagesRight
  OBVIOUS
<1>1. /\ list \in Lists /\ place \in Placings /\ pages = << >> /\ ended = FALSE /\ stirs = 0
      /\ stood = PageRows /\ left = 0 /\ came = 0 /\ alike = Tied /\ rewatched = {}
  BY DEF PagesInit
<1>2. PICK phase \in {"u", "a"} : cursor = [Start EXCEPT !.phase = phase]
  BY DEF PagesInit
<1>3. /\ cursor \in Cursors /\ cursor.phase = phase /\ cursor.from = NoRow /\ cursor.skip = 0
  BY <1>2 DEF Start, NoRow, Cursors
<1>4. watched \subseteq Entries
  BY DEF PagesInit
<1>5. place \in [Entries -> 0 .. Top]
  <2>1. place \in [Entries -> 0 .. Top - 1]
    BY <1>1 DEF Placings
  <2> QED
    BY <2>1, PagesBounds
<1>6. pages \in Seq(Seq(Entries))
  BY <1>1
<1>7. PagesTyped
  <2>1. cursor.phase \in {"u", "s", "a"} /\ stirs \in 0 .. MaxStirs
    BY <1>1, <1>3, PagesBounds
  <2>2. PagesTypeOK
    BY <1>1, <1>4, <1>5, <1>6, <2>1 DEF PagesTypeOK
  <2> QED
    BY <1>1, <1>3, <2>2 DEF PagesTyped
<1>8. \A r : ~ReadGiven(r) /\ ~ReadTwice(r)
  <2>1. DOMAIN pages = {}
    BY <1>1
  <2>2. \A r : Readings(r) = {}
    BY <2>1 DEF Readings
  <2> QED
    BY <2>2 DEF ReadGiven, ReadTwice
<1>9. \A r : ~ReadDue(r) /\ ReadOlder(r)
  BY <1>3 DEF ReadDue, ReadPast, Beyond, ReadOlder
<1>10. PassedBy = {} /\ Again = {}
  <2>1. \A r : ~(RowAt(r) <= cursor.skip)
    BY <1>3, <1>7, RowAtType
  <2> QED
    BY <1>8, <2>1 DEF PassedBy, Again
<1>11. Cardinality(PassedBy) = 0 /\ Cardinality(Again) = 0
  BY <1>10, FS_EmptySet
<1> QED
  BY <1>1, <1>7, <1>8, <1>9, <1>11 DEF PagesRight, ReelsRight, ThreadRight, OffsetRight

LEMMA PagesStep == PagesRight /\ [PagesNext]_pageVars => PagesRight'
<1> SUFFICES ASSUME PagesRight, [PagesNext]_pageVars PROVE PagesRight'
  OBVIOUS
<1>1. PagesTyped /\ ReelsRight /\ ThreadRight /\ OffsetRight
  BY DEF PagesRight
<1>2. CASE ReadReels
  <2>1. list.how = "keyset" /\ list' = list
    BY <1>2 DEF ReadReels, Hand
  <2> QED
    BY <1>1, <1>2, <2>1, ReelsReadOn DEF PagesRight, ThreadRight, OffsetRight
<1>3. CASE ReadMessages
  <2>1. list.how = "moment" /\ list' = list
    BY <1>3 DEF ReadMessages, Hand
  <2> QED
    BY <1>1, <1>3, <2>1, ThreadReadsOn DEF PagesRight, ReelsRight, OffsetRight
<1>4. CASE ReadOffset
  <2>1. list.how = "offset" /\ list' = list
    BY <1>4 DEF ReadOffset, Hand
  <2> QED
    BY <1>1, <1>4, <2>1, OffsetReadsOn DEF PagesRight, ReelsRight, ThreadRight
<1>5. ASSUME NEW x \in Entries, EntryComes(x) \/ EntryLeaves(x) \/ EntryMoves(x)
      PROVE  PagesRight'
  <2>1. /\ ~ended /\ UNCHANGED <<list, cursor, pages, ended>>
        /\ PagesTyped' /\ \A q \in Entries \ {x} : place'[q] = place[q]
        /\ stood' = stood \ {x} /\ alike \subseteq alike'
    BY <1>1, <1>5, StirMoves
  <2>2. ReelsRight' /\ ThreadRight'
    BY <1>1, <1>5, ReelsStirred, ThreadStirred
  <2>3. CASE list.how = "offset"
    <3>1. Tied \subseteq alike
      BY <1>1, <2>3 DEF OffsetRight
    <3>2. CASE EntryComes(x)
      <4>1. left' = left /\ came' = came + 1 /\ x \notin PageRows /\ Tied' \subseteq alike'
        BY <3>2 DEF EntryComes, PageRows
      <4> QED
        BY <1>1, <2>1, <2>2, <2>3, <4>1, OffsetStirred DEF PagesRight
    <3>3. CASE EntryLeaves(x)
      <4>1. /\ left' = left + 1 /\ came' = came /\ alike' = alike
            /\ place' = [place EXCEPT ![x] = 0]
        BY <3>3 DEF EntryLeaves
      <4>2. x \notin PageRows'
        BY <1>1, <4>1 DEF PagesTyped, PagesTypeOK, PageRows
      <4>3. Tied' \subseteq Tied
        <5>1. ASSUME NEW r \in PageRows', NEW q \in Entries \ {r}, place'[q] = place'[r]
              PROVE  r \in PageRows /\ place[q] = place[r]
          <6>1. r # x /\ place'[r] > 0 /\ r \in Entries
            BY <4>2 DEF PageRows
          <6>2. place'[x] = 0
            BY <1>1, <4>1 DEF PagesTyped, PagesTypeOK
          <6>3. q # x
            BY <5>1, <6>1, <6>2
          <6> QED
            BY <2>1, <5>1, <6>1, <6>3 DEF PageRows
        <5> QED
          BY <2>1, <5>1 DEF Tied
      <4>4. Tied' \subseteq alike'
        BY <3>1, <4>1, <4>3
      <4> QED
        BY <1>1, <2>1, <2>2, <2>3, <4>1, <4>2, <4>4, OffsetStirred DEF PagesRight
    <3>4. CASE EntryMoves(x)
      <4>1. left' = left + 1 /\ came' = came + 1 /\ Tied' \subseteq alike'
        BY <3>4 DEF EntryMoves
      <4> QED
        BY <1>1, <2>1, <2>2, <2>3, <4>1, OffsetStirred DEF PagesRight
    <3> QED
      BY <1>5, <3>2, <3>3, <3>4
  <2>4. CASE list.how # "offset"
    BY <2>1, <2>2, <2>4 DEF PagesRight, OffsetRight
  <2> QED
    BY <2>3, <2>4
<1>6. ASSUME NEW x \in Entries, ReelWatched(x) PROVE PagesRight'
  <2>1. list.how = "keyset" /\ list' = list
    BY <1>6 DEF ReelWatched, Stir
  <2> QED
    BY <1>1, <1>6, <2>1, ReelsWatched DEF PagesRight, ThreadRight, OffsetRight
<1>7. CASE UNCHANGED pageVars
  <2>1. UNCHANGED <<list, place, watched, cursor, pages, ended, stirs, stood, left, came,
                    alike, rewatched>>
    BY <1>7 DEF pageVars, pageGhosts
  <2>2. PagesTyped'
    BY <1>1, <2>1 DEF PagesTyped, PagesTypeOK, PageRows
  <2>3. ReelsRight' /\ ThreadRight'
    BY <1>1, <2>1 DEF ReelsRight, ThreadRight, ReadGiven, ReadTwice, ReadDue, ReadPast,
         Beyond, ReadOlder, Clipped, Readings, PageRows
  <2>4. OffsetRight'
    BY <1>1, <2>1 DEF OffsetRight, Tied, PassedBy, Again, Sure, Leader, ReadGiven, ReadTwice,
         Readings, RowAt, RowsAhead, PageRows, Ahead
  <2> QED
    BY <2>2, <2>3, <2>4 DEF PagesRight
<1> QED
  BY <1>2, <1>3, <1>4, <1>5, <1>6, <1>7 DEF PagesNext, ReadPage

LEMMA PagesRightReads == PagesRight => ScrollReadsWhatStood /\ PagesTypeOK
<1> SUFFICES ASSUME PagesRight PROVE ScrollReadsWhatStood /\ PagesTypeOK
  OBVIOUS
<1>1. /\ PagesTyped /\ PagesTypeOK /\ ReelsRight /\ ThreadRight /\ OffsetRight
  BY DEF PagesRight, PagesTyped
<1>2. /\ Missed = {r \in stood : ~ReadGiven(r)}
      /\ Repeated = {r \in stood : ReadTwice(r)}
  BY DEF Missed, Repeated, ReadGiven, ReadTwice
<1>3. ASSUME ended, list.how = "keyset" PROVE Missed = {} /\ Repeated \subseteq rewatched
  BY <1>1, <1>2, <1>3 DEF ReelsRight
<1>4. ASSUME ended, list.how = "moment" PROVE Repeated = {} /\ \A r \in Missed : Clipped(r)
  BY <1>1, <1>2, <1>4 DEF ThreadRight
<1>5. ASSUME ended, list.how = "offset"
      PROVE  /\ Cardinality(Missed \ alike) <= left
             /\ Cardinality(Repeated \ (alike \cup Leader)) <= came
  <2>1. /\ Cardinality(PassedBy) <= left /\ Cardinality(Again) <= came
        /\ \A r \in PageRows : RowAt(r) <= cursor.skip
    BY <1>1, <1>5 DEF OffsetRight
  <2>2. Missed \ alike \subseteq PassedBy
    BY <1>1, <1>2, <2>1, SureRows DEF Sure, PassedBy
  <2>3. Repeated \ (alike \cup Leader) \subseteq Again
    BY <1>2 DEF Sure, Again
  <2>4. /\ IsFiniteSet(PassedBy) /\ Cardinality(PassedBy) \in Nat
        /\ IsFiniteSet(Again) /\ Cardinality(Again) \in Nat
    BY <1>1, SureRows
  <2>5. PICK A, B : A = Missed \ alike /\ B = Repeated \ (alike \cup Leader)
    OBVIOUS
  <2>6. /\ IsFiniteSet(A) /\ Cardinality(A) <= Cardinality(PassedBy)
        /\ IsFiniteSet(B) /\ Cardinality(B) <= Cardinality(Again)
    BY <2>2, <2>3, <2>4, <2>5, FS_Subset
  <2>7. Cardinality(A) \in Nat /\ Cardinality(B) \in Nat /\ left \in Nat /\ came \in Nat
    BY <1>1, <2>6, FS_CardinalityType DEF PagesTyped
  <2> QED
    BY <2>1, <2>4, <2>5, <2>6, <2>7
<1>6. list.how \in {"keyset", "moment", "offset"}
  BY <1>1, ListKinds DEF PagesTypeOK, PageLists
<1> QED
  BY <1>1, <1>3, <1>4, <1>5, <1>6 DEF ScrollReadsWhatStood, Leader

(* Whoever reads a list to its end was given what stood all along, and     *)
(* once, for any rows, page size and number of changes others make         *)
(* meanwhile, whatever order the query gives equal rows                    *)
(* (videos.service.ts:385-563, chat.service.ts:472-508,                    *)
(* listing.repository.ts:35-150).                                          *)
THEOREM ListsAreRead == PagesSpec => [](ScrollReadsWhatStood /\ PagesTypeOK)
<1>1. PagesRight => ScrollReadsWhatStood /\ PagesTypeOK
  BY PagesRightReads
<1> QED
  BY PagesStart, PagesStep, <1>1, PTL DEF PagesSpec

(***************************************************************************)
(* The services together                                                   *)
(***************************************************************************)

(* A half of a module does nothing the module does not.                    *)
LEMMA HalvesAreSteps ==
    /\ CatalogueHalf => CatalogueNext
    /\ GalleryHalf => GalleryNext
    /\ ReelsHalf => ReelsNext
    /\ DeskHalf => DeskNext
BY Zenon DEF CatalogueHalf, GalleryHalf, ReelsHalf, DeskHalf

(* Whichever service a behaviour moves, each of them behaves by its own    *)
(* specification: none writes what another reads.                          *)
LEMMA ServicesApart ==
    ServicesSpec => /\ ChargingSpec /\ PromotionSpec /\ PricesSpec /\ CatalogueSpec
                    /\ ToursSpec /\ GallerySpec /\ ReelsSpec /\ DeskSpec /\ PagesSpec
<1>1. ServicesInit => /\ ChargingInit /\ PromotionInit /\ PricesInit /\ CatalogueInit
                      /\ ToursInit /\ GalleryInit /\ ReelsInit /\ DeskInit /\ PagesInit
  BY DEF ServicesInit, PagesAtRest
<1>2. [ServicesNext]_servicesVars =>
        /\ [ChargingNext]_chargeVars /\ [PromotionNext]_topVars /\ [PricesNext]_priceVars
        /\ [CatalogueNext]_catalogueVars /\ [ToursNext]_tourVars
        /\ [GalleryNext]_galleryVars /\ [ReelsNext]_clipVars /\ [DeskNext]_deskVars
        /\ [PagesNext]_pageVars
  BY HalvesAreSteps DEF ServicesNext, servicesVars
<1> QED
  BY <1>1, <1>2, PTL DEF ServicesSpec, ChargingSpec, PromotionSpec, PricesSpec,
     CatalogueSpec, ToursSpec, GallerySpec, ReelsSpec, DeskSpec, PagesSpec

(* In every behaviour of the services that the run explores on a small     *)
(* instance, for any people, adverts, reels, requests and bounds, posts    *)
(* are paid for once, what was paid for is kept, prices follow the rate,   *)
(* categories resolve, tours play, files are accounted for, and the        *)
(* numbers and badges are right.                                           *)
THEOREM ServicesKeepTheirWord ==
    ServicesSpec => []( /\ EachPostPaidOnce /\ PaidTimeIsKept /\ StoredPricesFollowTheRate
                        /\ CategoriesResolve /\ TourPlays /\ FilesAreAccountedFor
                        /\ ReelNumbersAreRows /\ TheDeskIsRight )
BY ServicesApart, PostsArePaidOnce, PaidTimeSurvives, PricesFollow, CategoriesAreKept,
   ToursAreKept, FilesAreKept, ReelNumbersHold, DeskIsKept, PTL

(* Nor does any of them change how a list is read.                         *)
THEOREM ListsStayWhole == ServicesSpec => []ListsAreReadWhole
<1>1. /\ ChargingTypeOK /\ PromotionTypeOK /\ PricesTypeOK /\ CatalogueTypeOK
      /\ ToursTypeOK /\ GalleryTypeOK /\ ReelsTypeOK /\ PagesTypeOK
      /\ ScrollReadsWhatStood
      => ListsAreReadWhole
  BY DEF ListsAreReadWhole, TypeOK
<1> QED
  BY <1>1, ServicesApart, PostsArePaidOnce, PromotionTypeCorrect, PricesFollow,
     CategoriesAreKept, ToursAreKept, FilesAreKept, ReelNumbersHold, ListsAreRead, PTL
=============================================================================
