---------------------------- MODULE SignInProofs ----------------------------
(***************************************************************************)
(* What holds of sign-in for every number of requests served at once.      *)
(* First of Sessions: a refresh token is exchanged at most once, and a     *)
(* family is one chain.  Then of Accounts, for any users and provider      *)
(* accounts: a code and a confirmation let one request through, requests   *)
(* signed in with one provider account are signed in to one user, and a    *)
(* contact detail goes with the identity that verified it.                 *)
(***************************************************************************)
EXTENDS Sessions, Accounts, FiniteSetTheorems, SequenceTheorems, TLAPS

-----------------------------------------------------------------------------
(* Sessions *)

\* A row that a conditional UPDATE would still claim.
Unspent(i) == tokens[i].state \in {"live", "expired"}

\* Handler s has claimed a token and is about to insert its successor.
Rotating(s) == At(s, "issue") /\ req[s].token # 0

-----------------------------------------------------------------------------
(* The inductive invariant. *)

\* A handler that is not serving has nothing in hand; one that is about to
\* claim a token, or has claimed it, has its family in hand.
InHand ==
    \A s \in Slots :
      /\ At(s, "idle") => req[s].token = 0
      /\ At(s, "claim") => req[s].user \in Statuses
      /\ At(s, "claim") \/ Rotating(s) =>
           /\ req[s].token \in DOMAIN tokens
           /\ req[s].family = tokens[req[s].token].family

\* A token that was exchanged is spent, and its one successor is in its family,
\* which is named by a token at least as old.
Chained ==
    /\ \A i \in DOMAIN tokens :
         /\ tokens[i].family <= i
         /\ tokens[i].from # 0 =>
              tokens[i].from \in DOMAIN tokens /\ ~Unspent(tokens[i].from)
    /\ \A i, j \in DOMAIN tokens :
         tokens[i].from = tokens[j].from /\ tokens[i].from # 0 => i = j

\* A token being exchanged is spent and has no successor yet.
Exchanged ==
    \A s \in Slots : Rotating(s) =>
      /\ ~Unspent(req[s].token)
      /\ \A j \in DOMAIN tokens : tokens[j].from # req[s].token

\* The end of a family's chain is one token, or one rotation.  It has to count
\* expired tokens too: one may still be claimed by a rotation that found it live.
OneEnd ==
    /\ \A i, j \in DOMAIN tokens :
         Unspent(i) /\ Unspent(j) /\ tokens[i].family = tokens[j].family => i = j
    /\ \A i \in DOMAIN tokens, s \in Slots :
         Unspent(i) /\ Rotating(s) => tokens[i].family # req[s].family
    /\ \A s, t \in Slots :
         Rotating(s) /\ Rotating(t) /\ req[s].family = req[t].family => s = t

Inv == TypeOK /\ InHand /\ Chained /\ Exchanged /\ OneEnd

-----------------------------------------------------------------------------
(* Steps that exchange nothing. *)

\* Every row of refresh_tokens is still there, in its family, and none that was
\* spent can be claimed again.
OnlySpends ==
    /\ DOMAIN tokens' = DOMAIN tokens
    /\ \A i \in DOMAIN tokens :
         /\ tokens'[i].family = tokens[i].family
         /\ tokens'[i].from = tokens[i].from
         /\ Unspent(i)' => Unspent(i)

\* Handler s goes on as before, or has no claimed token in hand, and at most a
\* token it found.
ClaimsNothing(s) ==
    \/ req'[s] = req[s]
    \/ /\ req'[s].pc = "idle" => req'[s].token = 0
       /\ ~Rotating(s)'
       /\ req'[s].pc = "claim" =>
            /\ req'[s].user \in Statuses
            /\ req'[s].token \in DOMAIN tokens
            /\ req'[s].family = tokens[req'[s].token].family

\* Such a step preserves the invariant.
LEMMA QuietStep ==
    ASSUME Inv, TypeOK', OnlySpends, \A s \in Slots : ClaimsNothing(s)
    PROVE  Inv'
<1>1. \A s \in Slots : Rotating(s)' => Rotating(s) /\ req'[s] = req[s]
  BY DEF ClaimsNothing, Rotating, At
<1>2. InHand'
  <2> SUFFICES ASSUME NEW s \in Slots
      PROVE  /\ At(s, "idle")' => req'[s].token = 0
             /\ At(s, "claim")' => req'[s].user \in Statuses
             /\ At(s, "claim")' \/ Rotating(s)' =>
                  /\ req'[s].token \in DOMAIN tokens'
                  /\ req'[s].family = tokens'[req'[s].token].family
    BY DEF InHand
  <2>1. CASE req'[s] = req[s]
    BY <2>1 DEF Inv, InHand, At, Rotating, OnlySpends
  <2>2. CASE req'[s] # req[s]
    BY <2>2 DEF ClaimsNothing, At, Rotating, OnlySpends
  <2> QED
    BY <2>1, <2>2
<1>3. Chained'
  BY DEF Inv, Chained, OnlySpends, Unspent
<1>4. Exchanged'
  BY <1>1 DEF Inv, Exchanged, InHand, OnlySpends, Rotating, Unspent
<1>5. OneEnd'
  BY <1>1 DEF Inv, OneEnd, OnlySpends, Unspent
<1> QED
  BY <1>2, <1>3, <1>4, <1>5 DEF Inv

\* An UPDATE that sets revoked_at keeps the table well formed and only spends.
LEMMA RevokeSpends ==
    ASSUME TypeOK, NEW which, Revoke(which)
    PROVE  /\ tokens' \in Seq(TokenType) /\ Len(tokens') = Len(tokens)
           /\ OnlySpends
<1> DEFINE n == Len(tokens)
<1>1. tokens \in Seq(TokenType) /\ n \in Nat /\ DOMAIN tokens = 1..n
  BY DEF TypeOK
<1>2. \A i \in 1..n : tokens[i] \in TokenType
  BY <1>1
<1>3. \A i \in 1..n : [tokens[i] EXCEPT !.state = "revoked"] \in TokenType
  BY <1>2 DEF TokenType
<1>4. tokens' \in [1..n -> TokenType]
  BY <1>1, <1>2, <1>3 DEF Revoke
<1>5. tokens' \in Seq(TokenType) /\ Len(tokens') = n
  BY <1>1, <1>4
<1>6. DOMAIN tokens' = DOMAIN tokens
  BY <1>1, <1>4
<1>7. ASSUME NEW i \in DOMAIN tokens
      PROVE  /\ tokens'[i].family = tokens[i].family
             /\ tokens'[i].from = tokens[i].from
             /\ Unspent(i)' => Unspent(i)
  BY <1>1, <1>2 DEF Revoke, Unspent, TokenType
<1> QED
  BY <1>5, <1>6, <1>7 DEF OnlySpends

\* A table that does not change spends nothing.
LEMMA SameTokens == ASSUME tokens' = tokens PROVE OnlySpends
BY DEF OnlySpends, Unspent

-----------------------------------------------------------------------------
(* Every step preserves it. *)

\* A handler that replaces its record by another of its type leaves the others.
LEMMA ReqStep ==
    ASSUME TypeOK, NEW s \in Slots, NEW r \in ReqType, req' = [req EXCEPT ![s] = r]
    PROVE  /\ req' \in [Slots -> ReqType]
           /\ req'[s] = r
           /\ \A t \in Slots : t # s => req'[t] = req[t]
BY DEF TypeOK

LEMMA IdleType == Idle \in ReqType
BY DEF Idle, ReqType, Steps

\* The tokens there are have the first numbers of Ids.
LEMMA Table ==
    ASSUME TypeOK
    PROVE  /\ MaxTokens \in Nat /\ Len(tokens) \in 0..MaxTokens
           /\ DOMAIN tokens = 1..Len(tokens) /\ DOMAIN tokens \subseteq Ids
           /\ \A i \in DOMAIN tokens : tokens[i] \in TokenType
<1>1. tokens \in Seq(TokenType) /\ Len(tokens) <= MaxTokens
  BY DEF TypeOK
<1>2. Len(tokens) \in Nat /\ DOMAIN tokens = 1..Len(tokens) /\ MaxTokens \in Nat
  BY <1>1, SessionsAssumption
<1> QED
  BY <1>1, <1>2 DEF Ids

\* The database starts with no tokens, and nobody is being served.
LEMMA InitInv == Init => Inv
<1> SUFFICES ASSUME Init PROVE Inv
  OBVIOUS
<1>1. tokens = << >> /\ tokens \in Seq(TokenType) /\ Len(tokens) = 0 /\ DOMAIN tokens = {}
  BY EmptySeq DEF Init
<1>2. req \in [Slots -> ReqType] /\ \A s \in Slots : req[s] = Idle
  BY IdleType DEF Init
<1>3. TypeOK
  BY <1>1, <1>2, SessionsAssumption DEF Init, TypeOK, AccountType, Statuses, Ids
<1>4. \A s \in Slots : req[s].pc = "idle" /\ req[s].token = 0
  BY <1>2 DEF Idle
<1>5. InHand /\ Chained /\ Exchanged /\ OneEnd
  BY <1>1, <1>4 DEF InHand, Chained, Exchanged, OneEnd, Rotating, At
<1> QED
  BY <1>3, <1>5 DEF Inv

\* Requests that arrive read the account, or a token, and exchange nothing.
LEMMA ArriveInv == ASSUME Inv, NEW s \in Slots, Arrive(s) PROVE Inv'
<1>1. TypeOK /\ req[s] \in ReqType /\ tokens \in Seq(TokenType)
  BY DEF Inv, TypeOK
<1>2. tokens' = tokens
  BY DEF Arrive, SignIn, Logout, ResetPassword, Ban, Unban, DeleteAccount, RotateFind,
     GuardQuery
<1>3. At(s, "idle") /\ req[s].token = 0
  BY DEF Inv, InHand, Arrive, SignIn, Logout, ResetPassword, Ban, Unban, DeleteAccount,
     RotateFind, GuardQuery
<1>4. account' \in AccountType /\ cache' \in AccountType \union {NoState}
  BY DEF Inv, TypeOK, AccountType, Statuses, Arrive, SignIn, Logout, ResetPassword, Ban,
     Unban, DeleteAccount, RotateFind, GuardQuery
<1>5. /\ req' \in [Slots -> ReqType]
      /\ \A t \in Slots : ClaimsNothing(t)
  <2>1. CASE SignIn(s) \/ Logout(s) \/ Ban(s) \/ Unban(s) \/ DeleteAccount(s)
    <3>1. PICK pc \in {"issue", "revokeAll", "invalidate"} :
            req' = [req EXCEPT ![s].pc = pc]
      BY <2>1 DEF SignIn, Logout, Ban, Unban, DeleteAccount, Goto
    <3> DEFINE r == [req[s] EXCEPT !.pc = pc]
    <3>2. r \in ReqType /\ req' = [req EXCEPT ![s] = r]
      BY <1>1, <3>1 DEF ReqType, Steps, TypeOK
    <3>3. r.pc = pc /\ r.token = 0
      BY <1>1, <1>3 DEF ReqType
    <3> QED
      BY <1>1, <3>2, <3>3, ReqStep DEF ClaimsNothing, Rotating, At
  <2>2. CASE ResetPassword(s)
    <3> DEFINE r == [req[s] EXCEPT !.pc = "revokeAll", !.thenIssue = TRUE]
    <3>1. r \in ReqType /\ req' = [req EXCEPT ![s] = r]
      BY <1>1, <2>2 DEF ReqType, Steps, TypeOK, ResetPassword
    <3>2. r.pc = "revokeAll"
      BY <1>1 DEF ReqType
    <3> QED
      BY <1>1, <3>1, <3>2, ReqStep DEF ClaimsNothing, Rotating, At
  <2>3. CASE GuardQuery(s)
    <3> DEFINE r == [req[s] EXCEPT !.pc = "store", !.seen = account]
    <3>1. r \in ReqType /\ req' = [req EXCEPT ![s] = r]
      BY <1>1, <2>3 DEF ReqType, Steps, TypeOK, GuardQuery
    <3>2. r.pc = "store"
      BY <1>1 DEF ReqType
    <3> QED
      BY <1>1, <3>1, <3>2, ReqStep DEF ClaimsNothing, Rotating, At
  <2>4. ASSUME NEW i \in DOMAIN tokens, RotateFind(s, i)
        PROVE  /\ req' \in [Slots -> ReqType]
               /\ \A t \in Slots : ClaimsNothing(t)
    <3>1. tokens[i] \in TokenType /\ i \in Ids
      BY <1>1, Table
    <3>2. CASE tokens[i].state = "revoked"
      <4> DEFINE r == [req[s] EXCEPT !.pc = "burn", !.family = tokens[i].family]
      <4>1. r \in ReqType /\ req' = [req EXCEPT ![s] = r]
        BY <1>1, <2>4, <3>1, <3>2 DEF ReqType, Steps, TypeOK, RotateFind, TokenType
      <4>2. r.pc = "burn"
        BY <1>1 DEF ReqType
      <4> QED
        BY <1>1, <4>1, <4>2, ReqStep DEF ClaimsNothing, Rotating, At
    <3>3. CASE tokens[i].state = "live"
      <4> DEFINE r == [req[s] EXCEPT !.pc = "claim", !.token = i,
                         !.family = tokens[i].family, !.user = account.status]
      <4>1. r \in ReqType /\ req' = [req EXCEPT ![s] = r]
        BY <1>1, <2>4, <3>1, <3>3 DEF ReqType, Steps, TypeOK, RotateFind, TokenType,
           AccountType
      <4>2. /\ r.pc = "claim" /\ r.token = i /\ r.family = tokens[i].family
            /\ r.user \in Statuses
        BY <1>1 DEF ReqType, TypeOK, AccountType
      <4> QED
        BY <1>1, <4>1, <4>2, ReqStep DEF ClaimsNothing, Rotating, At
    <3> QED
      BY <2>4, <3>2, <3>3 DEF RotateFind
  <2> QED
    BY <2>1, <2>2, <2>3, <2>4 DEF Arrive
<1>6. TypeOK'
  BY <1>1, <1>2, <1>4, <1>5 DEF TypeOK
<1> QED
  BY <1>2, <1>5, <1>6, SameTokens, QuietStep

\* Statements of a handler that insert no token and claim none.
LEMMA WorkInv ==
    ASSUME Inv, NEW s \in Slots,
           Burn(s) \/ RevokeAllTokens(s) \/ SetValidFrom(s) \/ Invalidate(s) \/ GuardStore(s)
    PROVE  Inv'
<1>1. TypeOK /\ req[s] \in ReqType /\ tokens \in Seq(TokenType)
  BY DEF Inv, TypeOK
<1>2. /\ tokens' \in Seq(TokenType) /\ Len(tokens') <= MaxTokens
      /\ OnlySpends
  <2>1. CASE tokens' = tokens
    BY <1>1, <2>1, SameTokens DEF TypeOK
  <2>2. CASE tokens' # tokens
    <3>1. PICK which : Revoke(which)
      BY <2>2 DEF Burn, RevokeAllTokens, SetValidFrom, Invalidate, GuardStore
    <3> QED
      BY <1>1, <3>1, RevokeSpends DEF TypeOK
  <2> QED
    BY <2>1, <2>2
<1>3. account' \in AccountType /\ cache' \in AccountType \union {NoState}
  BY <1>1 DEF TypeOK, AccountType, ReqType, Burn, RevokeAllTokens, SetValidFrom, Invalidate,
     GuardStore
<1>4. /\ req' \in [Slots -> ReqType]
      /\ \A t \in Slots : ClaimsNothing(t)
  <2>1. CASE Finish(s)
    <3>1. Idle.pc = "idle" /\ Idle.token = 0
      BY DEF Idle
    <3> QED
      BY <1>1, <2>1, <3>1, IdleType, ReqStep DEF Finish, ClaimsNothing, Rotating, At
  <2>2. CASE RevokeAllTokens(s)
    <3> DEFINE r == [req[s] EXCEPT !.pc = "validFrom", !.now = Len(tokens)]
    <3>1. Len(tokens) \in Ids \union {0}
      BY <1>1, Table DEF Ids
    <3>2. r \in ReqType /\ req' = [req EXCEPT ![s] = r]
      BY <1>1, <2>2, <3>1 DEF ReqType, Steps, TypeOK, RevokeAllTokens
    <3>3. r.pc = "validFrom"
      BY <1>1 DEF ReqType
    <3> QED
      BY <1>1, <3>2, <3>3, ReqStep DEF ClaimsNothing, Rotating, At
  <2>3. CASE SetValidFrom(s)
    <3> DEFINE r == [req[s] EXCEPT !.pc = "invalidate"]
    <3>1. r \in ReqType /\ req' = [req EXCEPT ![s] = r]
      BY <1>1, <2>3 DEF ReqType, Steps, TypeOK, SetValidFrom, Goto
    <3>2. r.pc = "invalidate"
      BY <1>1 DEF ReqType
    <3> QED
      BY <1>1, <3>1, <3>2, ReqStep DEF ClaimsNothing, Rotating, At
  <2>4. CASE Invalidate(s) /\ ~Finish(s)
    <3> DEFINE r == [Idle EXCEPT !.pc = "issue"]
    <3>1. r \in ReqType /\ r.pc = "issue" /\ r.token = 0
      BY DEF Idle, ReqType, Steps
    <3>2. req' = [req EXCEPT ![s] = r]
      BY <2>4 DEF Invalidate
    <3> QED
      BY <1>1, <3>1, <3>2, ReqStep DEF ClaimsNothing, Rotating, At
  <2> QED
    BY <2>1, <2>2, <2>3, <2>4 DEF Burn, Invalidate, GuardStore
<1>5. TypeOK'
  BY <1>2, <1>3, <1>4 DEF TypeOK
<1> QED
  BY <1>2, <1>4, <1>5, QuietStep

\* The conditional UPDATE of a rotation: whoever claims the token was the only
\* one who could, because nothing spent is claimed and nothing claimed is found
\* unspent.
LEMMA RotateClaimInv == ASSUME Inv, NEW s \in Slots, RotateClaim(s) PROVE Inv'
<1> DEFINE k == req[s].token
<1>1. TypeOK /\ req[s] \in ReqType /\ req[s].pc = "claim" /\ ~Rotating(s)
  BY DEF Inv, TypeOK, RotateClaim, At, Rotating
<1>2. /\ k \in DOMAIN tokens /\ k # 0
      /\ req[s].family = tokens[k].family
      /\ req[s].user \in Statuses
  BY <1>1, Table DEF Inv, InHand, RotateClaim
<1>3. account' = account /\ cache' = cache
  BY DEF RotateClaim
<1>4. CASE ~Unspent(k)
  <2> DEFINE r == [req[s] EXCEPT !.pc = "burn"]
  <2>1. tokens' = tokens /\ req' = [req EXCEPT ![s] = r]
    BY <1>1, <1>4 DEF RotateClaim, Unspent, Goto, TypeOK
  <2>2. r \in ReqType /\ r.pc = "burn"
    BY <1>1 DEF ReqType, Steps
  <2>3. /\ req' \in [Slots -> ReqType]
        /\ \A t \in Slots : ClaimsNothing(t)
    BY <1>1, <2>1, <2>2, ReqStep DEF ClaimsNothing, Rotating, At
  <2>4. TypeOK'
    BY <1>1, <1>3, <2>1, <2>3 DEF TypeOK
  <2> QED
    BY <2>1, <2>3, <2>4, SameTokens, QuietStep
<1>5. CASE Unspent(k)
  <2>1. Revoke({k}) /\ Claimed(s)
    BY <1>5 DEF RotateClaim, Unspent
  <2>2. /\ tokens' \in Seq(TokenType) /\ Len(tokens') <= MaxTokens
        /\ OnlySpends
    BY <1>1, <2>1, RevokeSpends DEF TypeOK
  <2>3. tokens'[k].state = "revoked"
    BY <1>1, <1>2, <1>5, <2>1, Table DEF Revoke, Unspent, TokenType
  <2>4. CASE req[s].user = "DELETED"
    <3>1. req' = [req EXCEPT ![s] = Idle] /\ Idle.pc = "idle" /\ Idle.token = 0
      BY <2>1, <2>4 DEF Claimed, Finish, Idle
    <3>2. /\ req' \in [Slots -> ReqType]
          /\ \A t \in Slots : ClaimsNothing(t)
      BY <1>1, <3>1, IdleType, ReqStep DEF ClaimsNothing, Rotating, At
    <3>3. TypeOK'
      BY <1>1, <1>3, <2>2, <3>2 DEF TypeOK
    <3> QED
      BY <2>2, <3>2, <3>3, QuietStep
  <2>5. CASE req[s].user = "BANNED"
    <3> DEFINE r == [Idle EXCEPT !.pc = "revokeAll"]
    <3>1. req' = [req EXCEPT ![s] = r]
      BY <2>1, <2>5 DEF Claimed
    <3>2. r \in ReqType /\ r.pc = "revokeAll"
      BY DEF Idle, ReqType, Steps
    <3>3. /\ req' \in [Slots -> ReqType]
          /\ \A t \in Slots : ClaimsNothing(t)
      BY <1>1, <3>1, <3>2, ReqStep DEF ClaimsNothing, Rotating, At
    <3>4. TypeOK'
      BY <1>1, <1>3, <2>2, <3>3 DEF TypeOK
    <3> QED
      BY <2>2, <3>3, <3>4, QuietStep
  <2>6. CASE req[s].user = "ACTIVE"
    <3> DEFINE r == [req[s] EXCEPT !.pc = "issue"]
    <3>1. req' = [req EXCEPT ![s] = r]
      BY <1>1, <2>1, <2>6 DEF Claimed, Goto, TypeOK
    <3>2. r \in ReqType /\ r.pc = "issue" /\ r.token = k /\ r.family = tokens[k].family
      BY <1>1, <1>2 DEF ReqType, Steps
    <3>3. /\ req' \in [Slots -> ReqType]
          /\ req'[s] = r
          /\ \A t \in Slots : t # s => req'[t] = req[t]
      BY <1>1, <3>1, <3>2, ReqStep
    <3>4. /\ Rotating(s)'
          /\ \A t \in Slots : t # s /\ Rotating(t)' => Rotating(t)
      BY <1>2, <3>2, <3>3 DEF Rotating, At
    <3>5. TypeOK'
      BY <1>1, <1>3, <2>2, <3>3 DEF TypeOK
    <3>6. InHand'
      <4> SUFFICES ASSUME NEW t \in Slots
          PROVE  /\ At(t, "idle")' => req'[t].token = 0
                 /\ At(t, "claim")' => req'[t].user \in Statuses
                 /\ At(t, "claim")' \/ Rotating(t)' =>
                      /\ req'[t].token \in DOMAIN tokens'
                      /\ req'[t].family = tokens'[req'[t].token].family
        BY DEF InHand
      <4>1. CASE t = s
        <5>1. req'[t] = r
          BY <3>3, <4>1
        <5>2. ~At(t, "idle")' /\ ~At(t, "claim")'
          BY <3>2, <5>1 DEF At
        <5>3. req'[t].token = k /\ req'[t].family = tokens[k].family
          BY <3>2, <5>1
        <5>4. k \in DOMAIN tokens' /\ tokens'[k].family = tokens[k].family
          BY <1>2, <2>2 DEF OnlySpends
        <5> QED
          BY <5>2, <5>3, <5>4
      <4>2. CASE t # s
        <5>1. req'[t] = req[t]
          BY <3>3, <4>2
        <5> QED
          BY <2>2, <5>1 DEF Inv, InHand, OnlySpends, Rotating, At
      <4> QED
        BY <4>1, <4>2
    <3>7. Chained'
      BY <2>2 DEF Inv, Chained, OnlySpends, Unspent
    <3>8. \A j \in DOMAIN tokens : tokens[j].from # k
      BY <1>2, <1>5 DEF Inv, Chained
    <3>9. Exchanged'
      <4> SUFFICES ASSUME NEW t \in Slots, Rotating(t)'
          PROVE  /\ ~(Unspent(req[t].token)')
                 /\ \A j \in DOMAIN tokens' : tokens'[j].from # req'[t].token
        BY DEF Exchanged
      <4>1. CASE t = s
        <5>1. req'[t].token = k
          BY <3>2, <3>3, <4>1
        <5>2. \A j \in DOMAIN tokens' : tokens'[j].from # k
          BY <2>2, <3>8 DEF OnlySpends
        <5>3. tokens'[req'[t].token].state = "revoked"
          BY <2>3, <5>1
        <5> QED
          BY <5>1, <5>2, <5>3 DEF Unspent
      <4>2. CASE t # s
        <5>1. req'[t] = req[t] /\ Rotating(t)
          BY <3>3, <3>4, <4>2
        <5>2. req[t].token \in DOMAIN tokens
          BY <5>1 DEF Inv, InHand
        <5> QED
          BY <2>2, <5>1, <5>2 DEF Inv, Exchanged, OnlySpends, Unspent
      <4> QED
        BY <4>1, <4>2
    <3>10. \A i \in DOMAIN tokens :
             Unspent(i)' => tokens[i].family # tokens[k].family
      BY <1>2, <1>5, <2>2, <2>3 DEF Inv, OneEnd, OnlySpends, Unspent
    <3>11. \A t \in Slots : Rotating(t) => req[t].family # tokens[k].family
      BY <1>2, <1>5 DEF Inv, OneEnd
    <3>12. OneEnd'
      <4>1. \A i, j \in DOMAIN tokens' :
              Unspent(i)' /\ Unspent(j)' /\ tokens'[i].family = tokens'[j].family => i = j
        BY <2>2 DEF Inv, OneEnd, OnlySpends
      <4>2. ASSUME NEW i \in DOMAIN tokens', NEW t \in Slots, Unspent(i)', Rotating(t)'
            PROVE  tokens'[i].family # req'[t].family
        <5>1. i \in DOMAIN tokens /\ Unspent(i) /\ tokens'[i].family = tokens[i].family
          BY <2>2, <4>2 DEF OnlySpends
        <5>2. CASE t = s
          BY <3>2, <3>3, <3>10, <4>2, <5>1, <5>2
        <5>3. CASE t # s
          BY <3>3, <3>4, <4>2, <5>1, <5>3 DEF Inv, OneEnd
        <5> QED
          BY <5>2, <5>3
      <4>3. ASSUME NEW t \in Slots, NEW u \in Slots, Rotating(t)', Rotating(u)',
                   req'[t].family = req'[u].family
            PROVE  t = u
        <5>1. ASSUME NEW v \in Slots, v # s, Rotating(v)'
              PROVE  req'[v].family # tokens[k].family
          BY <3>3, <3>4, <3>11, <5>1
        <5>2. req'[s].family = tokens[k].family
          BY <3>2, <3>3
        <5>3. CASE t = s \/ u = s
          BY <4>3, <5>1, <5>2, <5>3
        <5>4. CASE t # s /\ u # s
          BY <3>3, <3>4, <4>3, <5>4 DEF Inv, OneEnd
        <5> QED
          BY <5>3, <5>4
      <4> QED
        BY <4>1, <4>2, <4>3 DEF OneEnd
    <3> QED
      BY <3>5, <3>6, <3>7, <3>9, <3>12 DEF Inv
  <2> QED
    BY <1>2, <2>4, <2>5, <2>6 DEF Statuses
<1> QED
  BY <1>4, <1>5

\* A pair is issued: to a sign-in in a family of its own, to a rotation as the
\* only successor of the token it claimed.
LEMMA IssueInv == ASSUME Inv, NEW s \in Slots, Issue(s) PROVE Inv'
<1> DEFINE n   == Len(tokens)
           old == req[s].token
           row == [family |-> IF old = 0 THEN n + 1 ELSE req[s].family,
                   from |-> old, state |-> "live"]
<1>1. /\ TypeOK /\ req[s] \in ReqType /\ req[s].pc = "issue"
      /\ tokens \in Seq(TokenType) /\ n \in Nat /\ n + 1 \in Ids
      /\ DOMAIN tokens = 1..n /\ n < MaxTokens /\ MaxTokens \in Nat
  BY Table DEF Inv, TypeOK, Issue, At, Ids
<1>2. Rotating(s) <=> old # 0
  BY <1>1 DEF Rotating, At
<1>3. old # 0 => /\ old \in 1..n
                 /\ req[s].family = tokens[old].family
                 /\ tokens[old].family \in Ids /\ tokens[old].family <= old
                 /\ ~Unspent(old)
                 /\ \A j \in 1..n : tokens[j].from # old
  BY <1>1, <1>2, Table DEF Inv, InHand, Chained, Exchanged, TokenType
<1>4. row \in TokenType
  BY <1>1, <1>3 DEF TokenType, ReqType
<1>5. tokens' = Append(tokens, row)
  BY DEF Issue
<1>6. /\ tokens' \in Seq(TokenType) /\ Len(tokens') = n + 1
      /\ DOMAIN tokens' = 1..(n + 1)
      /\ \A i \in 1..n : tokens'[i] = tokens[i]
      /\ tokens'[n + 1] = row
  BY <1>1, <1>4, <1>5
<1>7. /\ req' \in [Slots -> ReqType]
      /\ req'[s] = Idle
      /\ \A t \in Slots : t # s => req'[t] = req[t]
  BY <1>1, IdleType, ReqStep DEF Issue, Finish
<1>8. ~Rotating(s)' /\ \A t \in Slots : Rotating(t)' => t # s /\ Rotating(t)
  BY <1>7 DEF Rotating, At, Idle
<1>9. TypeOK'
  BY <1>1, <1>6, <1>7 DEF TypeOK, Issue
<1>10. InHand'
  <2> SUFFICES ASSUME NEW t \in Slots
      PROVE  /\ At(t, "idle")' => req'[t].token = 0
             /\ At(t, "claim")' => req'[t].user \in Statuses
             /\ At(t, "claim")' \/ Rotating(t)' =>
                  /\ req'[t].token \in DOMAIN tokens'
                  /\ req'[t].family = tokens'[req'[t].token].family
    BY DEF InHand
  <2>1. CASE t = s
    BY <1>7, <1>8, <2>1 DEF At, Idle
  <2>2. CASE t # s
    BY <1>1, <1>6, <1>7, <1>8, <2>2 DEF Inv, InHand, At
  <2> QED
    BY <2>1, <2>2
<1>11. /\ \A i \in 1..n : Unspent(i)' <=> Unspent(i)
       /\ row.from = old /\ row.family = IF old = 0 THEN n + 1 ELSE req[s].family
  BY <1>6 DEF Unspent
<1>12. Chained'
  <2>1. ASSUME NEW i \in DOMAIN tokens'
        PROVE  /\ tokens'[i].family <= i
               /\ tokens'[i].from # 0 =>
                    (tokens[i].from \in DOMAIN tokens /\ ~Unspent(tokens[i].from))'
    <3>1. CASE i \in 1..n
      BY <1>1, <1>6, <1>11, <3>1 DEF Inv, Chained
    <3>2. CASE i = n + 1
      <4>1. CASE old = 0
        BY <1>1, <1>6, <1>11, <3>2, <4>1
      <4>2. CASE old # 0
        BY <1>1, <1>3, <1>6, <1>11, <3>2, <4>2 DEF Ids
      <4> QED
        BY <4>1, <4>2
    <3> QED
      BY <1>1, <1>6, <3>1, <3>2
  <2>2. ASSUME NEW i \in DOMAIN tokens', NEW j \in DOMAIN tokens',
               tokens'[i].from = tokens'[j].from, tokens'[i].from # 0
        PROVE  i = j
    <3>1. CASE i \in 1..n /\ j \in 1..n
      BY <1>1, <1>6, <2>2, <3>1 DEF Inv, Chained
    <3>2. CASE i = n + 1 \/ j = n + 1
      BY <1>1, <1>3, <1>6, <1>11, <2>2, <3>2
    <3> QED
      BY <1>1, <1>6, <3>1, <3>2
  <2> QED
    BY <2>1, <2>2 DEF Chained
<1>13. \A t \in Slots : t # s /\ Rotating(t) =>
         /\ req[t].token \in 1..n
         /\ req[t].family <= n
         /\ req[t].family # row.family
         /\ req[t].token # old
  <2> SUFFICES ASSUME NEW t \in Slots, t # s, Rotating(t)
      PROVE  /\ req[t].token \in 1..n
             /\ req[t].family <= n
             /\ req[t].family # row.family
             /\ req[t].token # old
    OBVIOUS
  <2>1. req[t].token \in 1..n /\ req[t].family = tokens[req[t].token].family
    BY <1>1 DEF Inv, InHand
  <2>2. tokens[req[t].token].family \in Ids /\ tokens[req[t].token].family <= req[t].token
    BY <1>1, <2>1, Table DEF Inv, Chained, TokenType
  <2>3. req[t].family \in Nat /\ req[t].family <= n
    BY <1>1, <2>1, <2>2 DEF Ids
  <2>4. CASE old = 0
    BY <1>1, <1>11, <2>1, <2>3, <2>4
  <2>5. CASE old # 0
    <3>1. req[t].family # req[s].family
      BY <1>2, <2>5 DEF Inv, OneEnd
    <3> QED
      BY <1>3, <1>11, <2>1, <2>3, <2>5, <3>1
  <2> QED
    BY <2>4, <2>5
<1>14. Exchanged'
  <2> SUFFICES ASSUME NEW t \in Slots, Rotating(t)'
      PROVE  /\ ~(Unspent(req[t].token)')
             /\ \A j \in DOMAIN tokens' : tokens'[j].from # req'[t].token
    BY DEF Exchanged
  <2>1. t # s /\ Rotating(t) /\ req'[t] = req[t]
    BY <1>7, <1>8
  <2>2. ~Unspent(req[t].token) /\ \A j \in 1..n : tokens[j].from # req[t].token
    BY <1>1, <2>1 DEF Inv, Exchanged
  <2>3. req[t].token \in 1..n /\ req[t].token # old
    BY <1>13, <2>1
  <2> QED
    BY <1>1, <1>6, <1>11, <2>1, <2>2, <2>3 DEF Unspent
<1>15. ASSUME NEW i \in 1..n, Unspent(i)
       PROVE  tokens[i].family # row.family
  <2>1. CASE old = 0
    <3>1. tokens[i].family \in Ids /\ tokens[i].family <= i
      BY <1>1, Table DEF Inv, Chained, TokenType
    <3> QED
      BY <1>1, <1>11, <2>1, <3>1 DEF Ids
  <2>2. CASE old # 0
    BY <1>1, <1>2, <1>11, <1>15, <2>2 DEF Inv, OneEnd
  <2> QED
    BY <2>1, <2>2
<1>16. OneEnd'
  <2>1. ASSUME NEW i \in DOMAIN tokens', NEW j \in DOMAIN tokens',
               Unspent(i)', Unspent(j)', tokens'[i].family = tokens'[j].family
        PROVE  i = j
    <3>1. CASE i \in 1..n /\ j \in 1..n
      BY <1>1, <1>6, <1>11, <2>1, <3>1 DEF Inv, OneEnd
    <3>2. CASE i = n + 1 \/ j = n + 1
      BY <1>1, <1>6, <1>11, <1>15, <2>1, <3>2
    <3> QED
      BY <1>1, <1>6, <3>1, <3>2
  <2>2. ASSUME NEW i \in DOMAIN tokens', NEW t \in Slots, Unspent(i)', Rotating(t)'
        PROVE  tokens'[i].family # req'[t].family
    <3>1. t # s /\ Rotating(t) /\ req'[t] = req[t]
      BY <1>7, <1>8, <2>2
    <3>2. CASE i \in 1..n
      BY <1>1, <1>6, <1>11, <2>2, <3>1, <3>2 DEF Inv, OneEnd
    <3>3. CASE i = n + 1
      BY <1>6, <1>13, <3>1, <3>3
    <3> QED
      BY <1>1, <1>6, <3>2, <3>3
  <2>3. \A t, u \in Slots :
          Rotating(t)' /\ Rotating(u)' /\ req'[t].family = req'[u].family => t = u
    BY <1>7, <1>8 DEF Inv, OneEnd
  <2> QED
    BY <2>1, <2>2, <2>3 DEF OneEnd
<1> QED
  BY <1>9, <1>10, <1>12, <1>14, <1>16 DEF Inv

\* What ends sessions, ages and purges rows, ages the cache or restarts the
\* process touches no handler's token.
LEMMA OtherInv ==
    ASSUME Inv,
           \/ \E f \in Ids : EndSession(f) \/ EndOtherSessions(f)
           \/ CacheAges
           \/ \E i \in DOMAIN tokens : Expire(i) \/ Purge(i)
           \/ Restart
           \/ UNCHANGED vars
    PROVE  Inv'
<1>1. TypeOK /\ tokens \in Seq(TokenType)
  BY DEF Inv, TypeOK
<1>2. /\ account' = account
      /\ cache' \in {cache, NoState}
  BY DEF EndSession, EndOtherSessions, CacheAges, Expire, Purge, Restart, vars
<1>3. /\ tokens' \in Seq(TokenType) /\ Len(tokens') <= MaxTokens
      /\ OnlySpends
  <2>1. CASE tokens' = tokens
    BY <1>1, <2>1, SameTokens DEF TypeOK
  <2>2. ASSUME NEW which, Revoke(which)
        PROVE  /\ tokens' \in Seq(TokenType) /\ Len(tokens') <= MaxTokens
               /\ OnlySpends
    BY <1>1, <2>2, RevokeSpends DEF TypeOK
  <2>3. ASSUME NEW i \in DOMAIN tokens, Expire(i) \/ Purge(i)
        PROVE  /\ tokens' \in Seq(TokenType) /\ Len(tokens') <= MaxTokens
               /\ OnlySpends
    <3>1. PICK st \in {"expired", "purged"} :
            /\ tokens' = [tokens EXCEPT ![i].state = st]
            /\ st = "expired" => Unspent(i)
      BY <2>3 DEF Expire, Purge, Unspent
    <3> DEFINE row == [tokens[i] EXCEPT !.state = st]
    <3>2. /\ row \in TokenType /\ row.family = tokens[i].family
          /\ row.from = tokens[i].from /\ row.state = st
          /\ tokens' = [tokens EXCEPT ![i] = row]
      BY <1>1, <3>1, Table DEF TokenType
    <3>3. /\ tokens' \in Seq(TokenType) /\ Len(tokens') = Len(tokens)
          /\ DOMAIN tokens' = DOMAIN tokens /\ tokens'[i] = row
          /\ \A j \in DOMAIN tokens : j # i => tokens'[j] = tokens[j]
      BY <1>1, <3>2
    <3> QED
      BY <1>1, <3>1, <3>2, <3>3 DEF OnlySpends, Unspent, TypeOK
  <2> QED
    BY <2>1, <2>2, <2>3 DEF EndSession, EndOtherSessions, CacheAges, Restart, vars
<1>4. /\ req' \in [Slots -> ReqType]
      /\ \A s \in Slots : ClaimsNothing(s)
  <2>1. CASE req' = req
    BY <1>1, <2>1 DEF TypeOK, ClaimsNothing
  <2>2. CASE req' = [s \in Slots |-> Idle]
    <3>1. Idle.pc = "idle" /\ Idle.token = 0
      BY DEF Idle
    <3> QED
      BY <2>2, <3>1, IdleType DEF ClaimsNothing, Rotating, At
  <2> QED
    BY <2>1, <2>2 DEF EndSession, EndOtherSessions, CacheAges, Expire, Purge, Restart, vars
<1>5. TypeOK'
  BY <1>1, <1>2, <1>3, <1>4 DEF TypeOK
<1> QED
  BY <1>3, <1>4, <1>5, QuietStep

LEMMA NextInv == Inv /\ [Next]_vars => Inv'
<1> SUFFICES ASSUME Inv, [Next]_vars PROVE Inv'
  OBVIOUS
<1>1. ASSUME NEW s \in Slots, Arrive(s) PROVE Inv'
  BY <1>1, ArriveInv
<1>2. ASSUME NEW s \in Slots, Continue(s) PROVE Inv'
  BY <1>2, IssueInv, RotateClaimInv, WorkInv DEF Continue
<1>3. ASSUME \/ \E f \in Ids : EndSession(f) \/ EndOtherSessions(f)
             \/ CacheAges
             \/ \E i \in DOMAIN tokens : Expire(i) \/ Purge(i)
             \/ Restart
             \/ UNCHANGED vars
      PROVE  Inv'
  BY <1>3, OtherInv
<1> QED
  BY <1>1, <1>2, <1>3 DEF Next

-----------------------------------------------------------------------------
(* The theorems. *)

\* The invariant holds in every reachable state.
THEOREM Invariant == Spec => []Inv
BY InitInv, NextInv, PTL DEF Spec

\* The tables of sessions, the account's row, the guard's cache and the
\* handlers only ever hold well formed values.
THEOREM TypeCorrect == Spec => []TypeOK
<1>1. Inv => TypeOK
  BY DEF Inv
<1> QED
  BY <1>1, Invariant, PTL

\* Two elements that are always equal make a set of at most one.
LEMMA AtMostOne ==
    ASSUME NEW S, \A x, y \in S : x = y
    PROVE  Cardinality(S) \in {0, 1} /\ (S = {} => Cardinality(S) = 0)
<1>1. CASE S = {}
  BY <1>1, FS_EmptySet
<1>2. CASE S # {}
  <2>1. PICK x : x \in S
    BY <1>2
  <2>2. S = {x}
    BY <2>1
  <2> QED
    BY <1>2, <2>2, FS_Singleton
<1> QED
  BY <1>1, <1>2

\* However refreshes, logouts, bans and restarts interleave, at most one pair is
\* ever issued, or about to be, in exchange for a refresh token (rotate).
THEOREM TokensWorkOnce == Spec => []EachTokenWorksOnce
<1>1. Inv => EachTokenWorksOnce
  <2> SUFFICES ASSUME Inv, NEW i \in Ids
      PROVE  Cardinality({j \in DOMAIN tokens : tokens[j].from = i})
               + Cardinality({s \in Slots : At(s, "issue") /\ req[s].token = i}) <= 1
    BY DEF EachTokenWorksOnce
  <2> DEFINE J == {j \in DOMAIN tokens : tokens[j].from = i}
             H == {s \in Slots : At(s, "issue") /\ req[s].token = i}
  <2>1. i # 0
    BY DEF Ids
  <2>2. \A j, k \in J : j = k
    BY <2>1 DEF Inv, Chained
  <2>3. \A s \in H : Rotating(s) /\ req[s].family = tokens[i].family
    BY <2>1 DEF Inv, InHand, Rotating
  <2>4. \A s, t \in H : s = t
    BY <2>3 DEF Inv, OneEnd
  <2>5. J = {} \/ H = {}
    BY <2>3 DEF Inv, Exchanged
  <2> QED
    BY <2>2, <2>4, <2>5, AtMostOne
<1> QED
  BY <1>1, Invariant, PTL

\* A session is one chain: a family never has two live tokens, nor a live one
\* and a rotation that will issue another (issuePair, rotate).
THEOREM FamiliesAreChains == Spec => []OneLivePerFamily
<1>1. Inv => OneLivePerFamily
  <2> SUFFICES ASSUME Inv, NEW f \in Ids
      PROVE  Cardinality({i \in OfFamily(f) : tokens[i].state = "live"})
               + Cardinality({s \in Slots : At(s, "issue") /\ req[s].token # 0
                                            /\ req[s].family = f}) <= 1
    BY DEF OneLivePerFamily
  <2> DEFINE L == {i \in OfFamily(f) : tokens[i].state = "live"}
             H == {s \in Slots : At(s, "issue") /\ req[s].token # 0 /\ req[s].family = f}
  <2>1. \A i \in L : i \in DOMAIN tokens /\ Unspent(i) /\ tokens[i].family = f
    BY DEF OfFamily, Unspent
  <2>2. \A s \in H : Rotating(s) /\ req[s].family = f
    BY DEF Rotating
  <2>3. \A i, j \in L : i = j
    BY <2>1 DEF Inv, OneEnd
  <2>4. \A s, t \in H : s = t
    BY <2>2 DEF Inv, OneEnd
  <2>5. L = {} \/ H = {}
    BY <2>1, <2>2 DEF Inv, OneEnd
  <2> QED
    BY <2>3, <2>4, <2>5, AtMostOne
<1> QED
  BY <1>1, Invariant, PTL

-----------------------------------------------------------------------------
(* Accounts *)

\* The user has this number or address as its own.
Owns(u, l) == Provider(l) \in Contacts /\ users[u].contact[Provider(l)] = l

\* Who has a wrong code in hand, and will count it.
Guessers(ph, i) ==
    {s \in Calls : call[s].pc = "guess" /\ call[s].login = ph /\ call[s].code = i}

\* A code that nobody claimed has let nobody in, and the guesses counted
\* and those about to be are no more than the column can come to.
CodesOK ==
    \A ph \in Phones : \A i \in DOMAIN codes[ph] :
      /\ codes[ph][i].used <= 1
      /\ ~codes[ph][i].consumed => codes[ph][i].used = 0
      /\ codes[ph][i].tries + Cardinality(Guessers(ph, i))
           <= MaxAttempts + Cardinality(Calls)

\* A confirmation that nobody claimed is one more than the claims.
SessionOK ==
    /\ session.status = "CONFIRMED" => session.tid \in Telegrams
    /\ IF session.status = "CONFIRMED" THEN session.issued < session.confirmed
       ELSE session.issued <= session.confirmed

\* What a provider account may be in the tables: of one user, and of no
\* one else's contact details; and a contact detail without an identity is
\* the seeded administrator's, which never had one.
Kinds == \A u \in Users, p \in Contacts :
    users[u].contact[p] # None =>
        users[u].contact[p] \in Logins /\ Provider(users[u].contact[p]) = p
OneUser == \A u, v \in Users, l \in Logins : <<u, l>> \in ids /\ <<v, l>> \in ids => u = v
OneOwner == \A u, v \in Users, l \in Logins : Owns(u, l) /\ Owns(v, l) => u = v
OwnersSignIn == \A u, v \in Users, l \in Logins : <<u, l>> \in ids /\ Owns(v, l) => u = v
OneSeeded == \A u, v \in Users, l, m \in Logins :
    Owns(u, l) /\ <<u, l>> \notin ids /\ Owns(v, m) /\ <<v, m>> \notin ids => u = v
Held == \A u \in Users, l \in Logins : Owns(u, l) => <<u, l>> \in ids \/ l \notin removed
TablesOK == Kinds /\ OneUser /\ OneOwner /\ OwnersSignIn /\ OneSeeded /\ Held

\* What a request has in hand at each of its awaits.
InHands(c) ==
    /\ c.pc \in {"retire", "send", "guess", "claim"} => c.login \in Phones
    /\ c.pc \in {"guess", "claim"} => c.code \in DOMAIN codes[c.login]
    /\ c.pc = "confirm" => c.login \in Telegrams
    /\ c.pc = "poll" => c.login \in Telegrams /\ c.op \in {"signin", "link"}
    /\ c.pc \in {"claim", "poll"} => c.op # "none" /\ (c.op = "link" => c.user \in Users)
    /\ c.pc \in {"find", "touch", "attach", "create", "in", "linkFind", "link"} => c.login \in Logins
    /\ c.pc \in {"touch", "attach", "in", "linkFind", "link", "unlink", "unlinkContact", "scrub"}
         => c.user \in Users
    /\ c.pc \in {"unlink", "unlinkContact"} => c.provider \in Providers
    /\ c.pc # "scrub" => c.gone = {}
    /\ c.pc = "scrub" => \A i \in c.gone : i[1] = c.user

\* What it found is still worth: nobody came to own the login it is about
\* to give to its user but with an identity; whoever is signed in has the
\* identity, or it was taken away; and what a deletion will remove is
\* nobody else's contact detail.
Finds(c) ==
    /\ c.pc \in {"touch", "attach"} =>
         \A x \in Users \ {c.user} : Owns(x, c.login) => <<x, c.login>> \in ids
    /\ c.pc = "in" => <<c.user, c.login>> \in ids \/ c.login \in removed
    /\ \A i \in c.gone : \A x \in Users : Owns(x, i[2]) => x = i[1]

AccountsInv ==
    /\ AccountsTypeOK /\ CodesOK /\ SessionOK /\ TablesOK
    /\ \A s \in Calls : InHands(call[s]) /\ Finds(call[s])

TablesTyped ==
    /\ users \in [Users -> UserType] /\ ids \subseteq Users \X Logins /\ removed \subseteq Logins

\* What a step may do to the tables: who comes to own a login signs in
\* with it, and it is none that a deletion is about to remove; whoever
\* loses an identity does not keep it as a contact detail.
Moves ==
    /\ \A x \in Users, l \in Logins : Owns(x, l)' /\ ~Owns(x, l) =>
          <<x, l>> \in ids' /\ \A s \in Calls : \A i \in call[s].gone : i[2] # l
    /\ \A x \in Users, l \in Logins : <<x, l>> \in ids /\ <<x, l>> \notin ids' =>
          ~Owns(x, l)' /\ l \in removed'
    /\ removed \subseteq removed'

-----------------------------------------------------------------------------
\* The logins of the three kinds are disjoint, and none is NULL.
LEMMA LoginFacts ==
    /\ \A l \in Logins : l # None /\ Provider(l) \in Providers
    /\ \A l \in Phones : l \in Logins /\ Provider(l) = "PHONE"
    /\ \A l \in Googles : l \in Logins /\ Provider(l) = "GOOGLE"
    /\ \A l \in Telegrams : l \in Logins /\ Provider(l) = "TELEGRAM"
    /\ None \notin Users
BY AccountsAssumption DEF Logins, Provider, Providers, Contacts

\* Guessers are requests, so they can be counted.
LEMMA GuessersBound ==
    ASSUME NEW ph, NEW i
    PROVE  /\ IsFiniteSet(Guessers(ph, i)) /\ Cardinality(Guessers(ph, i)) \in Nat
           /\ Cardinality(Guessers(ph, i)) <= Cardinality(Calls)
           /\ Cardinality(Calls) \in Nat
<1>1. IsFiniteSet(Calls) /\ Guessers(ph, i) \subseteq Calls
  BY AccountsAssumption DEF Guessers
<1> QED
  BY <1>1, FS_Subset, FS_CardinalityType

\* A request that is over holds nothing.
LEMMA NoCallFits ==
    /\ NoCall \in CallType /\ NoCall.pc # "guess" /\ NoCall.gone = {}
    /\ InHands(NoCall) /\ Finds(NoCall) /\ InHands(NoCall)' /\ Finds(NoCall)'
BY DEF NoCall, CallType, Stages, InHands, Finds

\* What a request found is kept by whatever others do to the tables.
LEMMA FindsKept ==
    ASSUME AccountsInv, Moves, NEW s \in Calls, NEW c, c = call[s]
    PROVE  Finds(c)'
<1>1. c \in CallType /\ InHands(c) /\ Finds(c)
  BY DEF AccountsInv, AccountsTypeOK
<1>2. ASSUME c.pc \in {"touch", "attach"}, NEW x \in Users \ {c.user}, Owns(x, c.login)'
      PROVE  <<x, c.login>> \in ids'
  <2>1. c.login \in Logins
    BY <1>1, <1>2 DEF InHands
  <2> QED
    BY <1>1, <1>2, <2>1 DEF Finds, Moves
<1>3. c.pc = "in" => <<c.user, c.login>> \in ids' \/ c.login \in removed'
  <2>1. c.pc = "in" => c.login \in Logins /\ c.user \in Users
    BY <1>1 DEF InHands
  <2> QED
    BY <1>1, <2>1 DEF Finds, Moves
<1>4. ASSUME NEW i \in c.gone, NEW x \in Users, Owns(x, i[2])' PROVE x = i[1]
  <2>1. i \in Users \X Logins
    BY <1>1 DEF CallType
  <2>2. i[2] \in Logins
    BY <2>1
  <2>3. Owns(x, i[2])
    BY <1>4, <2>2 DEF Moves
  <2> QED
    BY <1>1, <2>3 DEF Finds
<1> QED
  BY <1>2, <1>3, <1>4 DEF Finds

\* One request moves on: what it takes for the invariant to hold then.
LEMMA TurnInv ==
    ASSUME AccountsInv, NEW s \in Calls, NEW c \in CallType, call' = [call EXCEPT ![s] = c],
           TablesTyped', TablesOK', Moves,
           codes' \in [Phones -> Seq(CodeType)], CodesOK',
           \A ph \in Phones : DOMAIN codes[ph] \subseteq DOMAIN codes'[ph],
           session' \in SessionType, SessionOK',
           InHands(c)', Finds(c)'
    PROVE  AccountsInv'
<1>1. call \in [Calls -> CallType]
  BY DEF AccountsInv, AccountsTypeOK
<1>2. call' \in [Calls -> CallType]
  BY <1>1
<1>3. AccountsTypeOK'
  BY <1>2 DEF AccountsTypeOK, TablesTyped
<1>4. ASSUME NEW t \in Calls, NEW d, d = call'[t] PROVE InHands(d)' /\ Finds(d)'
  <2>1. CASE t = s
    BY <1>1, <1>4, <2>1
  <2>2. CASE t # s
    <3>1. d = call[t]
      BY <1>1, <1>4, <2>2
    <3>2. InHands(d)
      BY <3>1 DEF AccountsInv
    <3>3. InHands(d)'
      BY <3>2 DEF InHands
    <3> QED
      BY <3>1, <3>3, FindsKept
  <2> QED
    BY <2>1, <2>2
<1>5. \A t \in Calls : (InHands(call[t]) /\ Finds(call[t]))'
  BY <1>4
<1> QED
  BY <1>3, <1>5 DEF AccountsInv

\* Tables that do not change.
LEMMA TablesStay ==
    ASSUME AccountsInv, UNCHANGED Tables
    PROVE  TablesTyped' /\ TablesOK' /\ Moves
<1>1. users' = users /\ ids' = ids /\ removed' = removed
  BY DEF Tables
<1>2. \A x, l : Owns(x, l)' <=> Owns(x, l)
  BY <1>1 DEF Owns
<1>3. TablesTyped'
  BY <1>1 DEF TablesTyped, AccountsInv, AccountsTypeOK
<1>4. TablesOK'
  BY <1>1, <1>2 DEF AccountsInv, TablesOK, Kinds, OneUser, OneOwner, OwnersSignIn, OneSeeded, Held
<1>5. Moves
  BY <1>1, <1>2 DEF Moves
<1> QED
  BY <1>3, <1>4, <1>5

\* Who has a wrong code in hand when a request moves on without one.
LEMMA FewerGuess ==
    ASSUME AccountsInv, NEW s, NEW c \in CallType, c.pc # "guess",
           call' = [call EXCEPT ![s] = c] \/ call' = call, NEW ph, NEW i
    PROVE  /\ Guessers(ph, i)' \subseteq Guessers(ph, i)
           /\ Cardinality(Guessers(ph, i))' \in Nat
           /\ Cardinality(Guessers(ph, i))' <= Cardinality(Guessers(ph, i))
<1>1. call \in [Calls -> CallType]
  BY DEF AccountsInv, AccountsTypeOK
<1>2. Guessers(ph, i)' \subseteq Guessers(ph, i)
  BY <1>1 DEF Guessers
<1>3. IsFiniteSet(Guessers(ph, i))
  BY GuessersBound
<1> QED
  BY <1>2, <1>3, FS_Subset, FS_CardinalityType

\* A code that keeps its guesses, or is new and has none.
Kept(x, old, i) ==
    /\ x.used <= 1
    /\ ~x.consumed => x.used = 0
    /\ i \in DOMAIN old => x.tries = old[i].tries
    /\ i \notin DOMAIN old => x.tries = 0

\* Codes of one phone that are kept so.
Keeps(q, old) ==
    /\ q \in Seq(CodeType) /\ Len(q) >= Len(old)
    /\ \A i \in DOMAIN q : Kept(q[i], old, i)

\* Codes that are kept so.
LEMMA CodesMove ==
    ASSUME AccountsInv, NEW s, NEW c \in CallType, c.pc # "guess",
           call' = [call EXCEPT ![s] = c] \/ call' = call,
           NEW ph \in Phones, NEW q, codes' = [codes EXCEPT ![ph] = q], Keeps(q, codes[ph])
    PROVE  /\ codes' \in [Phones -> Seq(CodeType)] /\ CodesOK'
           /\ \A p \in Phones : DOMAIN codes[p] \subseteq DOMAIN codes'[p]
<1>0. /\ q \in Seq(CodeType) /\ Len(q) >= Len(codes[ph])
      /\ \A i \in DOMAIN q : Kept(q[i], codes[ph], i)
  BY DEF Keeps
<1>1. codes \in [Phones -> Seq(CodeType)]
  BY DEF AccountsInv, AccountsTypeOK
<1>2. codes' \in [Phones -> Seq(CodeType)]
  BY <1>0, <1>1
<1>3. \A p \in Phones : codes'[p] = IF p = ph THEN q ELSE codes[p]
  BY <1>1
<1>4. \A p \in Phones : DOMAIN codes[p] = 1 .. Len(codes[p]) /\ Len(codes[p]) \in Nat
  BY <1>1
<1>5. DOMAIN q = 1 .. Len(q) /\ Len(q) \in Nat
  BY <1>0
<1>6. \A p \in Phones : DOMAIN codes[p] \subseteq DOMAIN codes'[p]
  BY <1>0, <1>3, <1>4, <1>5
<1>7. ASSUME NEW p \in Phones, NEW i \in DOMAIN codes'[p]
      PROVE  /\ codes'[p][i].used <= 1
             /\ ~codes'[p][i].consumed => codes'[p][i].used = 0
             /\ codes'[p][i].tries + Cardinality(Guessers(p, i))' <= MaxAttempts + Cardinality(Calls)
  <2>1. /\ Cardinality(Guessers(p, i))' \in Nat
        /\ Cardinality(Guessers(p, i))' <= Cardinality(Guessers(p, i))
        /\ Cardinality(Guessers(p, i)) \in Nat /\ Cardinality(Guessers(p, i)) <= Cardinality(Calls)
        /\ Cardinality(Calls) \in Nat /\ MaxAttempts \in Nat
    BY FewerGuess, GuessersBound, AccountsAssumption
  <2>2. CASE p # ph
    <3>1. codes'[p] = codes[p] /\ i \in DOMAIN codes[p]
      BY <1>3, <1>7, <2>2
    <3>2. /\ codes[p][i].used <= 1
          /\ ~codes[p][i].consumed => codes[p][i].used = 0
          /\ codes[p][i].tries + Cardinality(Guessers(p, i)) <= MaxAttempts + Cardinality(Calls)
      BY <3>1 DEF AccountsInv, CodesOK
    <3>3. codes[p][i] \in CodeType
      BY <1>1, <3>1
    <3>4. codes[p][i].tries \in Nat
      BY <3>3, <2>1 DEF CodeType
    <3> QED
      BY <2>1, <3>1, <3>2, <3>4
  <2>3. CASE p = ph
    <3>1. codes'[p] = q /\ i \in DOMAIN q
      BY <1>3, <1>7, <2>3
    <3>2. /\ q[i].used <= 1
          /\ ~q[i].consumed => q[i].used = 0
          /\ i \in DOMAIN codes[ph] => q[i].tries = codes[ph][i].tries
          /\ i \notin DOMAIN codes[ph] => q[i].tries = 0
      <4>1. Kept(q[i], codes[ph], i)
        BY <1>0, <3>1
      <4> QED
        BY <4>1 DEF Kept
    <3>3. CASE i \in DOMAIN codes[ph]
      <4>1. /\ codes[ph][i].tries + Cardinality(Guessers(ph, i)) <= MaxAttempts + Cardinality(Calls)
            /\ q[i].tries = codes[ph][i].tries
        BY <3>2, <3>3 DEF AccountsInv, CodesOK
      <4>2. codes[ph][i] \in CodeType
        BY <1>1, <3>3
      <4>3. codes[ph][i].tries \in Nat
        BY <4>2, <2>1 DEF CodeType
      <4>4. Guessers(ph, i) = Guessers(p, i)
        BY <2>3
      <4> QED
        BY <2>1, <3>1, <3>2, <4>1, <4>3, <4>4
    <3>4. CASE i \notin DOMAIN codes[ph]
      BY <2>1, <3>1, <3>2, <3>4
    <3> QED
      BY <3>3, <3>4
  <2> QED
    BY <2>2, <2>3
<1> QED
  BY <1>2, <1>6, <1>7 DEF CodesOK

\* Codes that do not change.
LEMMA CodesStay ==
    ASSUME AccountsInv, NEW s, NEW c \in CallType, c.pc # "guess",
           call' = [call EXCEPT ![s] = c] \/ call' = call, UNCHANGED codes
    PROVE  /\ codes' \in [Phones -> Seq(CodeType)] /\ CodesOK'
           /\ \A p \in Phones : DOMAIN codes[p] \subseteq DOMAIN codes'[p]
<1>1. codes \in [Phones -> Seq(CodeType)]
  BY DEF AccountsInv, AccountsTypeOK
<1>7. ASSUME NEW p \in Phones, NEW i \in DOMAIN codes'[p]
      PROVE  /\ codes'[p][i].used <= 1
             /\ ~codes'[p][i].consumed => codes'[p][i].used = 0
             /\ codes'[p][i].tries + Cardinality(Guessers(p, i))' <= MaxAttempts + Cardinality(Calls)
  <2>1. /\ Cardinality(Guessers(p, i))' \in Nat
        /\ Cardinality(Guessers(p, i))' <= Cardinality(Guessers(p, i))
        /\ Cardinality(Guessers(p, i)) \in Nat
        /\ Cardinality(Calls) \in Nat /\ MaxAttempts \in Nat
    BY FewerGuess, GuessersBound, AccountsAssumption
  <2>2. /\ codes[p][i].used <= 1
        /\ ~codes[p][i].consumed => codes[p][i].used = 0
        /\ codes[p][i].tries + Cardinality(Guessers(p, i)) <= MaxAttempts + Cardinality(Calls)
    BY <1>7 DEF AccountsInv, CodesOK
  <2>3. codes[p][i] \in CodeType
    BY <1>1, <1>7
  <2>4. codes[p][i].tries \in Nat
    BY <2>3, <2>1 DEF CodeType
  <2> QED
    BY <2>1, <2>2, <2>4
<1> QED
  BY <1>1, <1>7 DEF CodesOK

\* A session that does not change.
LEMMA SessionStays ==
    ASSUME AccountsInv, UNCHANGED session PROVE session' \in SessionType /\ SessionOK'
BY DEF AccountsInv, AccountsTypeOK, SessionOK

\* A request that only reads.
LEMMA QuietInv ==
    ASSUME AccountsInv, NEW s \in Calls, NEW c \in CallType, c.pc # "guess",
           call' = [call EXCEPT ![s] = c], UNCHANGED <<Tables, codes, session>>,
           InHands(c), Finds(c)
    PROVE  AccountsInv'
<1>1. users' = users /\ ids' = ids /\ removed' = removed /\ codes' = codes /\ session' = session
  BY DEF Tables
<1>2. InHands(c)'
  BY <1>1 DEF InHands
<1>3. Finds(c)'
  BY <1>1 DEF Finds, Owns
<1>4. UNCHANGED Tables
  BY <1>1 DEF Tables
<1> QED
  BY <1>1, <1>2, <1>3, <1>4, TablesStay, CodesStay, SessionStays, TurnInv

\* A request that changes the tables, and neither a code nor the session.
LEMMA WritesInv ==
    ASSUME AccountsInv, NEW s \in Calls, NEW c \in CallType, c.pc # "guess",
           call' = [call EXCEPT ![s] = c], UNCHANGED <<codes, session>>,
           TablesTyped', TablesOK', Moves, InHands(c), Finds(c)'
    PROVE  AccountsInv'
<1>1. InHands(c)'
  BY DEF InHands
<1> QED
  BY <1>1, CodesStay, SessionStays, TurnInv

-----------------------------------------------------------------------------
\* The writes to the tables.

\* A user gets an identity, and the contact detail of the same number or
\* address, or none, and the unique indexes were asked.
LEMMA Gains ==
    ASSUME AccountsInv, NEW u \in Users, NEW l \in Logins, NEW rec \in UserType,
           IdentityFree(u, l), ~Waits(u, l),
           \A x \in Users \ {u} : ~Owns(x, l),
           \A p \in Contacts : \/ rec.contact[p] \in {None, users[u].contact[p]}
                               \/ p = Provider(l) /\ rec.contact[p] = l,
           users' = [users EXCEPT ![u] = rec], ids' = ids \union {<<u, l>>},
           removed' = removed
    PROVE  TablesTyped' /\ TablesOK' /\ Moves
<1>1. /\ users \in [Users -> UserType] /\ ids \subseteq Users \X Logins /\ removed \subseteq Logins
      /\ TablesOK
  BY DEF AccountsInv, AccountsTypeOK
<1>2. TablesTyped'
  BY <1>1 DEF TablesTyped
<1>3. \A x \in Users : users'[x] = IF x = u THEN rec ELSE users[x]
  BY <1>1
<1>4. \A x \in Users, m \in Logins : <<x, m>> \in ids' <=> <<x, m>> \in ids \/ (x = u /\ m = l)
  OBVIOUS
<1>5. \A x \in Users : <<x, l>> \notin ids
  BY DEF IdentityFree
<1>6. ASSUME NEW x \in Users, NEW m \in Logins, Owns(x, m)', ~Owns(x, m)
      PROVE  x = u /\ m = l
  BY <1>3, <1>6, LoginFacts DEF Owns
<1>7. \A x \in Users, m \in Logins : Owns(x, m)' => Owns(x, m) \/ (x = u /\ m = l)
  BY <1>6
<1>8. Kinds'
  <2> SUFFICES ASSUME NEW x \in Users, NEW p \in Contacts, users'[x].contact[p] # None
               PROVE  users'[x].contact[p] \in Logins /\ Provider(users'[x].contact[p]) = p
    BY DEF Kinds
  <2>1. CASE users'[x].contact[p] = users[x].contact[p]
    BY <1>1, <2>1 DEF TablesOK, Kinds
  <2>2. CASE users'[x].contact[p] # users[x].contact[p]
    BY <1>3, <2>2
  <2> QED
    BY <2>1, <2>2
<1>9. OneUser' /\ OneOwner' /\ OwnersSignIn' /\ OneSeeded' /\ Held'
  <2>1. OneUser'
    BY <1>1, <1>4, <1>5 DEF TablesOK, OneUser
  <2>2. OneOwner'
    BY <1>1, <1>7 DEF TablesOK, OneOwner
  <2>3. OwnersSignIn'
    BY <1>1, <1>4, <1>5, <1>7 DEF TablesOK, OwnersSignIn
  <2>4. OneSeeded'
    BY <1>1, <1>4, <1>7 DEF TablesOK, OneSeeded
  <2>5. Held'
    BY <1>1, <1>4, <1>7 DEF TablesOK, Held
  <2> QED
    BY <2>1, <2>2, <2>3, <2>4, <2>5
<1>10. Moves
  <2>1. \A s \in Calls : \A i \in call[s].gone : i[2] # l
    BY DEF Waits
  <2> QED
    BY <1>4, <1>6, <2>1 DEF Moves
<1> QED
  BY <1>2, <1>8, <1>9, <1>10 DEF TablesOK

\* A user loses identities with the contact details they verified.
LEMMA Loses ==
    ASSUME AccountsInv, NEW u \in Users, NEW rec \in UserType, NEW rows,
           rows \subseteq Users \X Logins,
           \A p \in Contacts : rec.contact[p] \in {None, users[u].contact[p]},
           \A i \in rows : /\ i[1] = u
                           /\ Provider(i[2]) \in Contacts => rec.contact[Provider(i[2])] # i[2]
                           /\ \A x \in Users : Owns(x, i[2]) => x = u,
           users' = [users EXCEPT ![u] = rec], ids' = ids \ rows,
           removed' = removed \union LoginsOf(rows)
    PROVE  TablesTyped' /\ TablesOK' /\ Moves
<1>1. /\ users \in [Users -> UserType] /\ ids \subseteq Users \X Logins /\ removed \subseteq Logins
      /\ TablesOK
  BY DEF AccountsInv, AccountsTypeOK
<1>0. \A m : m \in LoginsOf(rows) <=> \E i \in rows : i[2] = m
  BY DEF LoginsOf
<1>00. LoginsOf(rows) \subseteq Logins
  BY <1>0
<1>2. TablesTyped'
  BY <1>1, <1>00 DEF TablesTyped
<1>3. \A x \in Users : users'[x] = IF x = u THEN rec ELSE users[x]
  BY <1>1
<1>4. ASSUME NEW x \in Users, NEW m \in Logins, Owns(x, m)'
      PROVE  Owns(x, m) /\ m \notin LoginsOf(rows)
  <2>1. Owns(x, m)
    BY <1>3, <1>4, LoginFacts DEF Owns
  <2>2. ASSUME NEW i \in rows, i[2] = m PROVE FALSE
    BY <1>3, <1>4, <2>1, <2>2 DEF Owns
  <2> QED
    BY <1>0, <2>1, <2>2
<1>5. \A x \in Users, m \in Logins : <<x, m>> \in ids /\ <<x, m>> \notin ids' => m \in LoginsOf(rows)
  <2> SUFFICES ASSUME NEW x \in Users, NEW m \in Logins, <<x, m>> \in rows
               PROVE  m \in LoginsOf(rows)
    OBVIOUS
  <2> QED
    BY <1>0
<1>6. ids' \subseteq ids
  OBVIOUS
<1>7. Kinds'
  BY <1>1, <1>3 DEF TablesOK, Kinds
<1>8. OneUser' /\ OneOwner' /\ OwnersSignIn'
  BY <1>1, <1>4, <1>6 DEF TablesOK, OneUser, OneOwner, OwnersSignIn
<1>9. \A x \in Users, m \in Logins : Owns(x, m)' /\ <<x, m>> \in ids => <<x, m>> \in ids'
  BY <1>4, <1>5
<1>10. OneSeeded'
  BY <1>1, <1>4, <1>9 DEF TablesOK, OneSeeded
<1>11. Held'
  BY <1>1, <1>4, <1>9 DEF TablesOK, Held
<1>12. Moves
  BY <1>4, <1>5, <1>9 DEF Moves
<1> QED
  BY <1>2, <1>7, <1>8, <1>10, <1>11, <1>12 DEF TablesOK

-----------------------------------------------------------------------------
\* Requests that read

\* A request that is over, or was refused.
LEMMA EndsInv ==
    ASSUME AccountsInv, NEW s \in Calls, Ends(s), UNCHANGED <<Tables, codes, session>>
    PROVE  AccountsInv'
BY NoCallFits, QuietInv DEF Ends

\* A request begins: to send a code, to attach or sign in a proven account,
\* to remove an identity, to delete the account.
LEMMA AsksInv ==
    ASSUME AccountsInv, NEW s \in Calls,
           \/ \E ph \in Phones : AskCode(s, ph)
           \/ \E t \in Telegrams : BotFind(s, t)
           \/ PollFind(s)
           \/ \E g \in Googles, op \in {"signin", "link"} : \E u \in For(op) : Google(s, op, g, u)
           \/ \E u \in Users : DeleteIdentities(s, u) \/ \E p \in Providers : UnlinkFind(s, u, p)
    PROVE  AccountsInv'
<1>1. ASSUME NEW ph \in Phones, AskCode(s, ph) PROVE AccountsInv'
  <2>1. PICK c : c = [NoCall EXCEPT !.pc = "retire", !.login = ph]
    OBVIOUS
  <2>2. c \in CallType /\ c.pc # "guess" /\ InHands(c) /\ Finds(c)
    BY <2>1, LoginFacts DEF NoCall, CallType, Stages, InHands, Finds
  <2> QED
    BY <1>1, <2>1, <2>2, QuietInv DEF AskCode, Begin, Proofs
<1>2. ASSUME NEW t \in Telegrams, BotFind(s, t) PROVE AccountsInv'
  <2>1. PICK c : c = [NoCall EXCEPT !.pc = IF session.late THEN "outdate" ELSE "confirm",
                                    !.login = t]
    OBVIOUS
  <2>2. c \in CallType /\ c.pc # "guess" /\ InHands(c) /\ Finds(c)
    BY <2>1, LoginFacts DEF NoCall, CallType, Stages, InHands, Finds
  <2> QED
    BY <1>2, <2>1, <2>2, QuietInv DEF BotFind, Begin, Proofs
<1>3. CASE PollFind(s)
  <2>1. PICK c : c = [NoCall EXCEPT !.pc = "poll", !.login = session.tid, !.user = session.link,
                        !.op = IF session.link = None THEN "signin" ELSE "link"]
    OBVIOUS
  <2>2. session \in SessionType /\ session.tid \in Telegrams
    BY <1>3 DEF PollFind, AccountsInv, AccountsTypeOK, SessionOK
  <2>3. session.link \in Users \union {None}
    BY <2>2 DEF SessionType
  <2>4. c \in CallType /\ c.pc # "guess" /\ InHands(c) /\ Finds(c)
    BY <2>1, <2>2, <2>3, LoginFacts DEF NoCall, CallType, Stages, InHands, Finds
  <2> QED
    BY <1>3, <2>1, <2>4, QuietInv DEF PollFind, Begin, Proofs
<1>4. ASSUME NEW g \in Googles, NEW op \in {"signin", "link"}, NEW u \in For(op),
             Google(s, op, g, u)
      PROVE  AccountsInv'
  <2>1. PICK c : c = Proven(s, op, g, u)
    OBVIOUS
  <2>2. c \in CallType /\ c.pc # "guess" /\ InHands(c) /\ Finds(c)
    BY <2>1, LoginFacts DEF For, Proven, NoCall, CallType, Stages, InHands, Finds
  <2> QED
    BY <1>4, <2>1, <2>2, QuietInv DEF Google, Begin, Proofs
<1>5. ASSUME NEW u \in Users, DeleteIdentities(s, u) PROVE AccountsInv'
  <2>1. PICK c : c = [NoCall EXCEPT !.pc = "scrub", !.user = u, !.gone = IdsOf(u)]
    OBVIOUS
  <2>2. ids \subseteq Users \X Logins /\ OwnersSignIn
    BY DEF AccountsInv, AccountsTypeOK, TablesOK
  <2>3. c \in CallType /\ c.pc # "guess" /\ InHands(c)
    BY <2>1, <2>2 DEF NoCall, CallType, Stages, InHands, IdsOf
  <2>4. ASSUME NEW i \in c.gone, NEW x \in Users, Owns(x, i[2]) PROVE x = i[1]
    <3>1. c.gone = IdsOf(u)
      BY <2>1 DEF NoCall
    <3>2. i \in ids /\ i[1] = u
      BY <3>1 DEF IdsOf
    <3>3. i[2] \in Logins /\ <<u, i[2]>> \in ids
      BY <2>2, <3>2
    <3> QED
      BY <2>2, <2>4, <3>2, <3>3 DEF OwnersSignIn
  <2>5. Finds(c)
    BY <2>1, <2>4 DEF Finds, NoCall
  <2> QED
    BY <1>5, <2>1, <2>3, <2>5, QuietInv DEF DeleteIdentities, Begin, Proofs
<1>6. ASSUME NEW u \in Users, NEW p \in Providers, UnlinkFind(s, u, p) PROVE AccountsInv'
  <2>1. PICK c : c = [NoCall EXCEPT !.pc = "unlink", !.user = u, !.provider = p]
    OBVIOUS
  <2>2. c \in CallType /\ c.pc # "guess" /\ InHands(c) /\ Finds(c)
    BY <2>1 DEF NoCall, CallType, Stages, InHands, Finds
  <2> QED
    BY <1>6, <2>1, <2>2, QuietInv DEF UnlinkFind, Begin, Proofs
<1> QED
  BY <1>1, <1>2, <1>3, <1>4, <1>5, <1>6

\* Who a proven account is of: a step that reads and decides.
LEMMA ResolveFindInv ==
    ASSUME AccountsInv, NEW s \in Calls, ResolveFind(s)
    PROVE  AccountsInv'
<1>1. PICK l : l = call[s].login
  OBVIOUS
<1>2. call[s] \in CallType /\ InHands(call[s]) /\ call[s].pc = "find"
  BY DEF ResolveFind, Stands, AccountsInv, AccountsTypeOK
<1>3. l \in Logins /\ call[s].gone = {}
  BY <1>1, <1>2 DEF InHands
<1>4. UNCHANGED <<Tables, codes, session>>
  BY DEF ResolveFind, Proofs
<1>5. OwnersSignIn /\ OneOwner
  BY DEF AccountsInv, TablesOK
<1>6. ASSUME NEW u \in Users, NEW pc \in {"touch", "attach"},
             call' = [call EXCEPT ![s].pc = pc, ![s].user = u],
             <<u, l>> \in ids \/ Owns(u, l)
      PROVE  AccountsInv'
  <2>1. PICK c : c = [call[s] EXCEPT !.pc = pc, !.user = u]
    OBVIOUS
  <2>2. c \in CallType /\ c.pc = pc /\ c.user = u /\ c.login = l /\ c.gone = {}
    BY <1>1, <1>2, <1>3, <2>1 DEF CallType, Stages
  <2>3. InHands(c)
    BY <1>3, <2>2 DEF InHands
  <2>4. Finds(c)
    BY <1>3, <1>5, <1>6, <2>2 DEF Finds, OwnersSignIn, OneOwner
  <2>5. call' = [call EXCEPT ![s] = c]
    BY <1>6, <2>1
  <2> QED
    BY <1>4, <2>2, <2>3, <2>4, <2>5, QuietInv
<1>7. CASE GoesOn(s, "create")
  <2>1. PICK c : c = [call[s] EXCEPT !.pc = "create"]
    OBVIOUS
  <2>2. c \in CallType /\ c.pc = "create" /\ c.login = l /\ c.gone = {}
    BY <1>1, <1>2, <1>3, <2>1 DEF CallType, Stages
  <2>3. InHands(c) /\ Finds(c)
    BY <1>3, <2>2 DEF InHands, Finds
  <2>4. call' = [call EXCEPT ![s] = c]
    BY <1>7, <2>1 DEF GoesOn
  <2> QED
    BY <1>4, <2>2, <2>3, <2>4, QuietInv
<1>8. \/ Ends(s) \/ GoesOn(s, "create")
      \/ \E u \in Users : /\ <<u, l>> \in ids
                          /\ call' = [call EXCEPT ![s].pc = "touch", ![s].user = u]
      \/ \E u \in Users : /\ Owns(u, l)
                          /\ call' = [call EXCEPT ![s].pc = "attach", ![s].user = u]
  BY <1>1 DEF ResolveFind, Owns
<1> QED
  BY <1>4, <1>6, <1>7, <1>8, EndsInv

\* The steps that go on with what they have, or stop.
LEMMA LeaveInv ==
    ASSUME AccountsInv, NEW s \in Calls, Leave(s) \/ LinkFind(s)
    PROVE  AccountsInv'
<1>1. UNCHANGED <<Tables, codes, session>>
  BY DEF Leave, LinkFind, Proofs
<1>2. CASE Ends(s)
  BY <1>1, <1>2, EndsInv
<1>3. CASE LinkFind(s) /\ GoesOn(s, "link")
  <2>1. PICK c : c = [call[s] EXCEPT !.pc = "link"]
    OBVIOUS
  <2>2. call[s] \in CallType /\ InHands(call[s]) /\ call[s].pc = "linkFind"
    BY <1>3 DEF LinkFind, Stands, AccountsInv, AccountsTypeOK
  <2>3. call[s].login \in Logins /\ call[s].user \in Users /\ call[s].gone = {}
    BY <2>2 DEF InHands
  <2>4. c \in CallType /\ c.pc = "link" /\ c.login \in Logins /\ c.user \in Users /\ c.gone = {}
    BY <2>1, <2>2, <2>3 DEF CallType, Stages
  <2>5. InHands(c) /\ Finds(c)
    BY <2>4 DEF InHands, Finds
  <2>6. call' = [call EXCEPT ![s] = c]
    BY <1>3, <2>1 DEF GoesOn
  <2> QED
    BY <1>1, <2>4, <2>5, <2>6, QuietInv
<1> QED
  BY <1>2, <1>3 DEF Leave, LinkFind

\* A unique violation: once more from the beginning, or not at all.
LEMMA RetryInv ==
    ASSUME AccountsInv, NEW s \in Calls, call[s].login \in Logins, call[s].gone = {},
           Retry(s), UNCHANGED <<Tables, codes, session>>
    PROVE  AccountsInv'
<1>1. call[s] \in CallType
  BY DEF AccountsInv, AccountsTypeOK
<1>2. CASE call[s].again
  <2>1. Ends(s)
    BY <1>2 DEF Retry, Ends
  <2> QED
    BY <2>1, EndsInv
<1>3. CASE ~call[s].again
  <2>1. PICK c : c = [call[s] EXCEPT !.pc = "find", !.user = None, !.again = TRUE]
    OBVIOUS
  <2>2. c \in CallType /\ c.pc = "find" /\ c.login \in Logins /\ c.gone = {}
    BY <1>1, <2>1 DEF CallType, Stages
  <2>3. InHands(c) /\ Finds(c)
    BY <2>2 DEF InHands, Finds
  <2>4. call' = [call EXCEPT ![s] = c]
    BY <1>3, <2>1 DEF Retry
  <2> QED
    BY <2>2, <2>3, <2>4, QuietInv
<1> QED
  BY <1>2, <1>3

-----------------------------------------------------------------------------
\* Requests that write the tables

\* Whoever gives a login to its user signs him in.
LEMMA SignsIn ==
    ASSUME AccountsInv, NEW s \in Calls, NEW u \in Users, call[s].login \in Logins,
           call[s].gone = {}, SignedIn(s, u), UNCHANGED <<codes, session>>,
           TablesTyped', TablesOK', Moves, <<u, call[s].login>> \in ids'
    PROVE  AccountsInv'
<1>1. call[s] \in CallType
  BY DEF AccountsInv, AccountsTypeOK
<1>2. PICK c : c = [call[s] EXCEPT !.pc = "in", !.user = u]
  OBVIOUS
<1>3. c \in CallType /\ c.pc = "in" /\ c.user = u /\ c.login = call[s].login /\ c.gone = {}
  BY <1>1, <1>2 DEF CallType, Stages
<1>4. InHands(c) /\ Finds(c)'
  BY <1>3 DEF InHands, Finds
<1>5. call' = [call EXCEPT ![s] = c]
  BY <1>2 DEF SignedIn
<1> QED
  BY <1>3, <1>4, <1>5, WritesInv

\* An identity for a user who was found: when nobody has the login, nobody
\* else owns it either.
LEMMA GivesLogin ==
    ASSUME AccountsInv, NEW s \in Calls, call[s].pc \in {"touch", "attach"},
           NEW u, u = call[s].user, NEW l, l = call[s].login,
           ~Waits(u, l), IdentityFree(u, l), ids' = ids \union {<<u, l>>},
           UNCHANGED <<users, removed, codes, session>>, SignedIn(s, u)
    PROVE  AccountsInv'
<1>1. call[s] \in CallType /\ InHands(call[s]) /\ Finds(call[s])
  BY DEF AccountsInv, AccountsTypeOK
<1>2. u \in Users /\ l \in Logins /\ call[s].gone = {}
  BY <1>1 DEF InHands
<1>3. \A x \in Users \ {u} : ~Owns(x, l)
  BY <1>1 DEF Finds, IdentityFree
<1>4. users \in [Users -> UserType]
  BY DEF AccountsInv, AccountsTypeOK
<1>5. users[u] \in UserType /\ users' = [users EXCEPT ![u] = users[u]]
  BY <1>2, <1>4
<1>6. TablesTyped' /\ TablesOK' /\ Moves
  BY <1>2, <1>3, <1>5, Gains
<1> QED
  BY <1>2, <1>6, SignsIn

\* The save of an identity that was found, and of one for a user who was
\* found by number or address.
LEMMA TouchInv ==
    ASSUME AccountsInv, NEW s \in Calls, Touch(s) \/ Attach(s)
    PROVE  AccountsInv'
<1>1. PICK u, l : u = call[s].user /\ l = call[s].login
  OBVIOUS
<1>2. call[s].pc \in {"touch", "attach"} /\ UNCHANGED <<users, removed, codes, session>>
  BY DEF Touch, Attach, Stands, Proofs
<1>3. call[s] \in CallType /\ InHands(call[s])
  BY DEF AccountsInv, AccountsTypeOK
<1>4. u \in Users /\ l \in Logins /\ call[s].gone = {}
  BY <1>1, <1>2, <1>3 DEF InHands
<1>5. CASE <<u, l>> \in ids /\ SignedIn(s, u) /\ UNCHANGED ids
  <2>1. UNCHANGED Tables
    BY <1>2, <1>5 DEF Tables
  <2> QED
    BY <1>1, <1>2, <1>4, <1>5, <2>1, TablesStay, SignsIn
<1>6. CASE Retry(s) /\ UNCHANGED ids
  BY <1>1, <1>2, <1>4, <1>6, RetryInv DEF Tables
<1>7. CASE /\ ~Waits(u, l) /\ IdentityFree(u, l) /\ ids' = ids \union {<<u, l>>}
           /\ SignedIn(s, u)
  BY <1>1, <1>2, <1>7, GivesLogin
<1> QED
  BY <1>1, <1>5, <1>6, <1>7 DEF Touch, Attach

\* A first sign-in: the user and the identity in one transaction.
LEMMA CreateInv ==
    ASSUME AccountsInv, NEW s \in Calls, Create(s)
    PROVE  AccountsInv'
<1>1. PICK l : l = call[s].login
  OBVIOUS
<1>2. /\ call[s].pc = "create" /\ UNCHANGED <<removed, codes, session>>
      /\ call[s] \in CallType /\ InHands(call[s])
  BY DEF Create, Stands, Proofs, AccountsInv, AccountsTypeOK
<1>3. l \in Logins /\ call[s].gone = {}
  BY <1>1, <1>2 DEF InHands
<1>4. PICK u \in Users :
        /\ ~Waits(u, l)
        /\ IF IdentityFree(u, l) /\ ContactFree(u, l)
           THEN /\ users' = [users EXCEPT ![u] = NewUser(l)]
                /\ ids' = ids \union {<<u, l>>}
                /\ SignedIn(s, u)
           ELSE Retry(s) /\ UNCHANGED <<users, ids>>
  BY <1>1 DEF Create
<1>5. CASE IdentityFree(u, l) /\ ContactFree(u, l)
  <2>1. PICK rec : rec = NewUser(l)
    OBVIOUS
  <2>2. rec \in UserType
    BY <1>3, <2>1 DEF NewUser, UserType, Provider, Contacts, Logins
  <2>3. \A p \in Contacts : rec.contact[p] = None \/ (p = Provider(l) /\ rec.contact[p] = l)
    BY <2>1 DEF NewUser
  <2>4. \A x \in Users \ {u} : ~Owns(x, l)
    BY <1>5 DEF ContactFree, Owns
  <2>5. TablesTyped' /\ TablesOK' /\ Moves
    BY <1>2, <1>3, <1>4, <1>5, <2>1, <2>2, <2>3, <2>4, Gains
  <2> QED
    BY <1>1, <1>2, <1>3, <1>4, <1>5, <2>5, SignsIn
<1>6. CASE ~(IdentityFree(u, l) /\ ContactFree(u, l))
  BY <1>1, <1>2, <1>3, <1>4, <1>6, RetryInv DEF Tables
<1> QED
  BY <1>5, <1>6

\* A user who has another contact detail of that kind, and no identity for
\* it, is the seeded one: so nobody else owns a login without an identity.
LEMMA LinkKeepsOwners ==
    ASSUME AccountsInv, NEW u \in Users, NEW l \in Logins, IdentityFree(u, l),
           Provider(l) \in Contacts, users[u].contact[Provider(l)] # None
    PROVE  \A x \in Users \ {u} : ~Owns(x, l)
<1> SUFFICES ASSUME NEW x \in Users \ {u}, Owns(x, l) PROVE FALSE
  OBVIOUS
<1>1. TablesOK
  BY DEF AccountsInv
<1>2. PICK m : m = users[u].contact[Provider(l)]
  OBVIOUS
<1>3. m \in Logins /\ Provider(m) = Provider(l)
  BY <1>1, <1>2 DEF TablesOK, Kinds
<1>4. Owns(u, m)
  BY <1>2, <1>3 DEF Owns
<1>5. <<u, m>> \notin ids
  BY <1>3 DEF IdentityFree
<1>6. <<x, l>> \notin ids
  BY DEF IdentityFree
<1> QED
  BY <1>1, <1>3, <1>4, <1>5, <1>6 DEF TablesOK, OneSeeded

\* Attaching a proven account to the one of the session.
LEMMA LinkInv ==
    ASSUME AccountsInv, NEW s \in Calls, Link(s)
    PROVE  AccountsInv'
<1>1. PICK u, l : u = call[s].user /\ l = call[s].login
  OBVIOUS
<1>2. /\ call[s].pc = "link" /\ UNCHANGED <<removed, codes, session>> /\ Ends(s)
      /\ call[s] \in CallType /\ InHands(call[s])
      /\ users \in [Users -> UserType]
  BY DEF Link, Stands, Proofs, AccountsInv, AccountsTypeOK
<1>3. u \in Users /\ l \in Logins
  BY <1>1, <1>2 DEF InHands
<1>4. PICK fills \in BOOLEAN :
        fills <=> Provider(l) \in Contacts /\ users[u].contact[Provider(l)] = None
  OBVIOUS
<1>5. CASE UNCHANGED <<ids, users>>
  BY <1>2, <1>5, EndsInv DEF Tables
<1>6. ASSUME IdentityFree(u, l), ~Waits(u, l), fills => ContactFree(u, l),
             ids' = ids \union {<<u, l>>},
             users' = IF fills THEN [users EXCEPT ![u].contact[Provider(l)] = l] ELSE users
      PROVE  AccountsInv'
  <2>1. PICK rec : rec = IF fills THEN [users[u] EXCEPT !.contact[Provider(l)] = l] ELSE users[u]
    OBVIOUS
  <2>2. users[u] \in UserType
    BY <1>2, <1>3
  <2>3. /\ rec \in UserType
        /\ \A p \in Contacts : \/ rec.contact[p] \in {None, users[u].contact[p]}
                               \/ p = Provider(l) /\ rec.contact[p] = l
    <3>1. CASE ~fills
      BY <2>1, <2>2, <3>1
    <3>2. CASE fills
      <4>1. l \in Phones \union Googles
        BY <1>3, <1>4, <3>2 DEF Provider, Contacts, Logins
      <4>2. users[u].contact \in [Contacts -> Phones \union Googles \union {None}]
        BY <2>2 DEF UserType
      <4>3. PICK k : k = [users[u].contact EXCEPT ![Provider(l)] = l]
        OBVIOUS
      <4>4. k \in [Contacts -> Phones \union Googles \union {None}]
        BY <4>1, <4>2, <4>3
      <4>5. rec = [users[u] EXCEPT !.contact = k]
        BY <2>1, <3>2, <4>3
      <4>6. rec \in UserType /\ rec.contact = k
        BY <2>2, <4>4, <4>5 DEF UserType
      <4> QED
        BY <4>2, <4>3, <4>6
    <3> QED
      BY <3>1, <3>2
  <2>4. users' = [users EXCEPT ![u] = rec]
    BY <1>2, <1>3, <1>6, <2>1
  <2>5. \A x \in Users \ {u} : ~Owns(x, l)
    <3>1. CASE fills
      BY <1>6, <3>1 DEF ContactFree, Owns
    <3>2. CASE Provider(l) \notin Contacts
      BY <3>2 DEF Owns
    <3>3. CASE Provider(l) \in Contacts /\ users[u].contact[Provider(l)] # None
      BY <1>3, <1>6, <3>3, LinkKeepsOwners
    <3> QED
      BY <1>4, <3>1, <3>2, <3>3
  <2>6. TablesTyped' /\ TablesOK' /\ Moves
    BY <1>2, <1>3, <1>6, <2>3, <2>4, <2>5, Gains
  <2> QED
    BY <1>2, <2>6, NoCallFits, WritesInv DEF Ends
<1> QED
  BY <1>1, <1>4, <1>5, <1>6 DEF Link

\* What remains of a user without one contact detail.
LEMMA ClearedUser ==
    ASSUME AccountsInv, NEW u \in Users, NEW p \in Providers
    PROVE  \E rec \in UserType :
             /\ Cleared(u, p) = [users EXCEPT ![u] = rec]
             /\ \A q \in Contacts : rec.contact[q] \in {None, users[u].contact[q]}
             /\ p \in Contacts => rec.contact[p] = None
<1>1. users \in [Users -> UserType] /\ users[u] \in UserType
  BY DEF AccountsInv, AccountsTypeOK
<1>2. CASE p \notin Contacts
  BY <1>1, <1>2 DEF Cleared
<1>3. CASE p \in Contacts
  <2>1. users[u].contact \in [Contacts -> Phones \union Googles \union {None}]
    BY <1>1 DEF UserType
  <2>2. PICK k : k = [users[u].contact EXCEPT ![p] = None]
    OBVIOUS
  <2>3. k \in [Contacts -> Phones \union Googles \union {None}]
    BY <2>1, <2>2
  <2>4. PICK rec : rec = [users[u] EXCEPT !.contact = k]
    OBVIOUS
  <2>5. rec \in UserType /\ rec.contact = k
    BY <1>1, <2>3, <2>4 DEF UserType
  <2>6. Cleared(u, p) = [users EXCEPT ![u] = rec]
    BY <1>1, <1>3, <2>2, <2>4 DEF Cleared
  <2> QED
    BY <1>3, <2>1, <2>2, <2>5, <2>6
<1> QED
  BY <1>2, <1>3

\* Taking an identity away, with what it verified.
LEMMA UnlinkInv ==
    ASSUME AccountsInv, NEW s \in Calls, Unlink(s) \/ UnlinkContact(s)
    PROVE  AccountsInv'
<1>1. PICK u, p : u = call[s].user /\ p = call[s].provider
  OBVIOUS
<1>2. /\ call[s].pc \in {"unlink", "unlinkContact"} /\ UNCHANGED <<codes, session>>
      /\ call[s] \in CallType /\ InHands(call[s]) /\ ids \subseteq Users \X Logins /\ OwnersSignIn
  BY DEF Unlink, UnlinkContact, Stands, Proofs, AccountsInv, AccountsTypeOK, TablesOK
<1>3. u \in Users /\ p \in Providers /\ call[s].gone = {}
  BY <1>1, <1>2 DEF InHands
<1>4. PICK rec \in UserType :
        /\ Cleared(u, p) = [users EXCEPT ![u] = rec]
        /\ \A q \in Contacts : rec.contact[q] \in {None, users[u].contact[q]}
        /\ p \in Contacts => rec.contact[p] = None
  BY <1>3, ClearedUser
<1>5. ASSUME NEW rows, rows \subseteq {i \in IdsOf(u) : Provider(i[2]) = p},
             users' = Cleared(u, p), ids' = ids \ rows,
             removed' = removed \union LoginsOf(rows), Ends(s)
      PROVE  AccountsInv'
  <2>1. rows \subseteq Users \X Logins
    BY <1>2, <1>5 DEF IdsOf
  <2>2. ASSUME NEW i \in rows
        PROVE  /\ i[1] = u
               /\ Provider(i[2]) \in Contacts => rec.contact[Provider(i[2])] # i[2]
               /\ \A x \in Users : Owns(x, i[2]) => x = u
    <3>1. i \in ids /\ i[1] = u /\ Provider(i[2]) = p /\ i[2] \in Logins /\ <<u, i[2]>> \in ids
      BY <1>2, <1>5, <2>1, <2>2 DEF IdsOf
    <3> QED
      BY <1>2, <1>3, <1>4, <3>1, LoginFacts DEF OwnersSignIn
  <2>3. TablesTyped' /\ TablesOK' /\ Moves
    BY <1>3, <1>4, <1>5, <2>1, <2>2, Loses
  <2> QED
    BY <1>2, <1>5, <2>3, NoCallFits, WritesInv DEF Ends
<1>6. CASE UnlinkContact(s)
  <2>1. LoginsOf({}) = {}
    BY DEF LoginsOf
  <2>2. /\ users' = Cleared(u, p) /\ ids' = ids \ {} /\ removed' = removed \union LoginsOf({})
        /\ Ends(s)
    BY <1>1, <1>6, <2>1 DEF UnlinkContact
  <2> QED
    BY <1>5, <2>2
<1>7. CASE Unlink(s) /\ {i \in IdsOf(u) : Provider(i[2]) = p} = {}
  <2>1. PICK c : c = [call[s] EXCEPT !.pc = "unlinkContact"]
    OBVIOUS
  <2>2. /\ c \in CallType /\ c.pc = "unlinkContact" /\ c.user = u /\ c.provider = p
        /\ c.gone = {}
    BY <1>1, <1>2, <1>3, <2>1 DEF CallType, Stages
  <2>3. InHands(c) /\ Finds(c)
    BY <1>3, <2>2 DEF InHands, Finds
  <2>4. call' = [call EXCEPT ![s] = c] /\ UNCHANGED Tables
    BY <1>1, <1>7, <2>1 DEF Unlink, GoesOn
  <2> QED
    BY <1>2, <2>2, <2>3, <2>4, QuietInv
<1>8. CASE Unlink(s) /\ {i \in IdsOf(u) : Provider(i[2]) = p} # {}
  <2>1. PICK rows : rows = {i \in IdsOf(u) : Provider(i[2]) = p}
    OBVIOUS
  <2>2. /\ users' = Cleared(u, p) /\ ids' = ids \ rows
        /\ removed' = removed \union LoginsOf(rows) /\ Ends(s)
    BY <1>1, <1>8, <2>1 DEF Unlink
  <2> QED
    BY <1>5, <2>1, <2>2
<1> QED
  BY <1>6, <1>7, <1>8

\* The end of an account's deletion.
LEMMA ScrubInv ==
    ASSUME AccountsInv, NEW s \in Calls, Scrub(s)
    PROVE  AccountsInv'
<1>1. PICK u, rows : u = call[s].user /\ rows = call[s].gone
  OBVIOUS
<1>2. /\ call[s].pc = "scrub" /\ UNCHANGED <<codes, session>>
      /\ call[s] \in CallType /\ InHands(call[s]) /\ Finds(call[s])
  BY DEF Scrub, Stands, Proofs, AccountsInv, AccountsTypeOK
<1>3. u \in Users /\ rows \subseteq Users \X Logins
  BY <1>1, <1>2 DEF InHands, CallType
<1>4. PICK rec : rec = [state |-> "deleted", contact |-> NoContact]
  OBVIOUS
<1>5. rec \in UserType /\ \A p \in Contacts : rec.contact[p] = None
  BY <1>4 DEF UserType, NoContact
<1>6. ASSUME NEW i \in rows
      PROVE  /\ i[1] = u
             /\ Provider(i[2]) \in Contacts => rec.contact[Provider(i[2])] # i[2]
             /\ \A x \in Users : Owns(x, i[2]) => x = u
  <2>1. i[2] \in Logins
    BY <1>3
  <2> QED
    BY <1>1, <1>2, <1>5, <2>1, LoginFacts DEF InHands, Finds
<1>7. TablesTyped' /\ TablesOK' /\ Moves
  <2>1. /\ users' = [users EXCEPT ![u] = rec] /\ ids' = ids \ rows
        /\ removed' = removed \union LoginsOf(rows)
    BY <1>1, <1>4 DEF Scrub
  <2>2. rec \in UserType /\ \A p \in Contacts : rec.contact[p] \in {None, users[u].contact[p]}
    BY <1>5
  <2> HIDE DEF Provider
  <2> QED
    BY <1>3, <1>6, <2>1, <2>2, Loses
<1> QED
  BY <1>2, <1>7, NoCallFits, WritesInv DEF Scrub, Ends

-----------------------------------------------------------------------------
\* Codes and the session

\* Retiring the outstanding codes, and saving the new one.
LEMMA SendsInv ==
    ASSUME AccountsInv, NEW s \in Calls, Retire(s) \/ Send(s)
    PROVE  AccountsInv'
<1>1. PICK ph : ph = call[s].login
  OBVIOUS
<1>2. /\ call[s].pc \in {"retire", "send"} /\ UNCHANGED <<Tables, session>>
      /\ call[s] \in CallType /\ InHands(call[s]) /\ codes \in [Phones -> Seq(CodeType)]
  BY DEF Retire, Send, Stands, AccountsInv, AccountsTypeOK
<1>3. ph \in Phones /\ call[s].gone = {}
  BY <1>1, <1>2 DEF InHands
<1>4. PICK q : q = codes[ph]
  OBVIOUS
<1>5. /\ q \in Seq(CodeType) /\ DOMAIN q = 1 .. Len(q) /\ Len(q) \in Nat
      /\ \A i \in DOMAIN q : q[i] \in CodeType
  BY <1>2, <1>3, <1>4
<1>6. \A i \in DOMAIN q : q[i].used <= 1 /\ (~q[i].consumed => q[i].used = 0)
  BY <1>3, <1>4 DEF AccountsInv, CodesOK
<1>7. CASE Retire(s)
  <2>1. PICK c : c = [call[s] EXCEPT !.pc = "send"]
    OBVIOUS
  <2>2. c \in CallType /\ c.pc = "send" /\ c.login = ph /\ c.gone = {}
    BY <1>1, <1>2, <1>3, <2>1 DEF CallType, Stages
  <2>3. InHands(c)' /\ Finds(c)'
    BY <1>3, <2>2 DEF InHands, Finds
  <2>4. PICK n : n = [i \in DOMAIN q |-> [q[i] EXCEPT !.consumed = TRUE]]
    OBVIOUS
  <2>5. \A i \in DOMAIN q : /\ n[i] \in CodeType /\ n[i].used = q[i].used
                            /\ n[i].consumed = TRUE /\ n[i].tries = q[i].tries
    BY <1>5, <2>4 DEF CodeType
  <2>6. n \in [1 .. Len(q) -> CodeType]
    BY <1>5, <2>4, <2>5
  <2>7. n \in Seq(CodeType) /\ Len(n) = Len(q) /\ DOMAIN n = DOMAIN q
    BY <1>5, <2>6
  <2>8. codes' = [codes EXCEPT ![ph] = n] /\ call' = [call EXCEPT ![s] = c]
    BY <1>1, <1>4, <1>7, <2>1, <2>4 DEF Retire, GoesOn
  <2>9. \A i \in DOMAIN n : Kept(n[i], codes[ph], i)
    BY <1>4, <1>6, <2>5, <2>7 DEF Kept
  <2>10. /\ codes' \in [Phones -> Seq(CodeType)] /\ CodesOK'
         /\ \A p \in Phones : DOMAIN codes[p] \subseteq DOMAIN codes'[p]
    <3>1. Keeps(n, codes[ph]) /\ c.pc # "guess"
      BY <1>4, <1>5, <2>2, <2>7, <2>9 DEF Keeps
    <3> QED
      BY <1>3, <2>2, <2>8, <3>1, CodesMove
  <2> QED
    BY <1>2, <2>2, <2>3, <2>8, <2>10, TablesStay, SessionStays, TurnInv
<1>8. CASE Send(s)
  <2>1. PICK new : new = [age |-> "fresh", consumed |-> FALSE, tries |-> 0, used |-> 0]
    OBVIOUS
  <2>2. new \in CodeType /\ new.tries = 0 /\ new.used = 0 /\ new.consumed = FALSE
    BY <2>1, GuessersBound, AccountsAssumption DEF CodeType
  <2>3. PICK n : n = Append(q, new)
    OBVIOUS
  <2>4. n \in Seq(CodeType) /\ Len(n) = Len(q) + 1 /\ DOMAIN n = 1 .. Len(q) + 1
    BY <1>5, <2>2, <2>3
  <2>5. \A i \in DOMAIN n : n[i] = IF i \in DOMAIN q THEN q[i] ELSE new
    BY <1>5, <2>3, <2>4
  <2>6. codes' = [codes EXCEPT ![ph] = n] /\ call' = [call EXCEPT ![s] = NoCall]
    BY <1>1, <1>4, <1>8, <2>1, <2>3 DEF Send, Ends
  <2>7. \A i \in DOMAIN n : Kept(n[i], codes[ph], i)
    BY <1>4, <1>6, <2>2, <2>5 DEF Kept
  <2>8. /\ codes' \in [Phones -> Seq(CodeType)] /\ CodesOK'
        /\ \A p \in Phones : DOMAIN codes[p] \subseteq DOMAIN codes'[p]
    <3>1. Keeps(n, codes[ph])
      BY <1>4, <1>5, <2>4, <2>7 DEF Keeps
    <3> QED
      BY <1>3, <2>6, <3>1, CodesMove, NoCallFits
  <2> QED
    BY <1>2, <2>6, <2>8, NoCallFits, TablesStay, SessionStays, TurnInv
<1> QED
  BY <1>7, <1>8

\* A request that its proof has let through.
LEMMA PassedOn ==
    ASSUME AccountsInv, NEW s \in Calls, call[s].pc \in {"claim", "poll"}, Passed(s)
    PROVE  \E c \in CallType :
              c.pc # "guess" /\ InHands(c)' /\ Finds(c)' /\ call' = [call EXCEPT ![s] = c]
<1>1. call[s] \in CallType /\ InHands(call[s])
  BY DEF AccountsInv, AccountsTypeOK
<1>2. /\ call[s].op \in {"signin", "link", "reset"}
      /\ call[s].op = "link" => call[s].user \in Users
      /\ call[s].user \in Users \union {None} /\ call[s].login \in Phones \union Telegrams
  BY <1>1 DEF InHands, CallType
<1>3. call[s].login \in Logins
  BY <1>2, LoginFacts
<1>4. CASE call[s].op = "reset"
  BY <1>4, NoCallFits DEF Passed, Ends
<1>5. CASE call[s].op # "reset"
  <2>1. PICK c : c = Proven(s, call[s].op, call[s].login, call[s].user)
    OBVIOUS
  <2>2. /\ c.pc = (IF call[s].op = "signin" THEN "find" ELSE "linkFind")
        /\ c.login = call[s].login /\ c.user = call[s].user /\ c.gone = {} /\ c \in CallType
    BY <1>2, <1>3, <1>5, <2>1 DEF Proven, NoCall, CallType, Stages
  <2>3. InHands(c)' /\ Finds(c)'
    BY <1>2, <1>3, <1>5, <2>2 DEF InHands, Finds
  <2>4. call' = [call EXCEPT ![s] = c]
    BY <1>5, <2>1 DEF Passed
  <2> QED
    BY <2>2, <2>3, <2>4
<1> QED
  BY <1>4, <1>5

\* One code of a phone is changed in place.
LEMMA CodeSet ==
    ASSUME NEW old \in Seq(CodeType), NEW i \in DOMAIN old, NEW new \in CodeType
    PROVE  /\ [old EXCEPT ![i] = new] \in Seq(CodeType)
           /\ Len([old EXCEPT ![i] = new]) = Len(old)
           /\ DOMAIN [old EXCEPT ![i] = new] = DOMAIN old
           /\ \A j \in DOMAIN old : [old EXCEPT ![i] = new][j] = IF j = i THEN new ELSE old[j]
OBVIOUS

\* What a claim writes into a code.
LEMMA SpentCode ==
    ASSUME NEW old \in CodeType
    PROVE  /\ Spent(old) \in CodeType /\ Spent(old).used = old.used + 1
           /\ Spent(old).consumed = TRUE /\ Spent(old).tries = old.tries
<1>1. PICK used \in Nat : used = old.used + 1
  BY DEF CodeType
<1>2. Spent(old) = [old EXCEPT !.consumed = TRUE, !.used = used]
  BY <1>1 DEF Spent
<1> QED
  BY <1>1, <1>2 DEF CodeType

\* The UPDATE that claims a code lets one request through: the claim asks
\* whether it is consumed.
LEMMA ClaimInv ==
    ASSUME AccountsInv, NEW s \in Calls, Claim(s)
    PROVE  AccountsInv'
<1>1. PICK ph, i : ph = call[s].login /\ i = call[s].code
  OBVIOUS
<1>2. /\ call[s].pc = "claim" /\ UNCHANGED <<Tables, session>>
      /\ call[s] \in CallType /\ InHands(call[s]) /\ codes \in [Phones -> Seq(CodeType)]
  BY DEF Claim, Stands, AccountsInv, AccountsTypeOK
<1>3. ph \in Phones /\ i \in DOMAIN codes[ph] /\ call[s].gone = {}
  BY <1>1, <1>2 DEF InHands
<1>4. CASE codes[ph][i].consumed
  BY <1>1, <1>2, <1>4, EndsInv DEF Claim
<1>5. CASE ~codes[ph][i].consumed
  <2>1. PICK new : new = Spent(codes[ph][i])
    OBVIOUS
  <2>2. codes[ph][i] \in CodeType /\ codes[ph][i].used = 0
    BY <1>2, <1>3, <1>5 DEF AccountsInv, CodesOK
  <2>3. new \in CodeType /\ new.used = 1 /\ new.consumed = TRUE /\ new.tries = codes[ph][i].tries
    <3>1. PICK old \in CodeType : old = codes[ph][i]
      BY <2>2
    <3>2. new = Spent(old) /\ old.used = 0
      BY <2>1, <2>2, <3>1
    <3>3. /\ Spent(old) \in CodeType /\ Spent(old).used = old.used + 1
          /\ Spent(old).consumed = TRUE /\ Spent(old).tries = old.tries
      BY SpentCode
    <3> QED
      BY <3>1, <3>2, <3>3
  <2>4. PICK q : q = [codes[ph] EXCEPT ![i] = new]
    OBVIOUS
  <2>5. codes' = [codes EXCEPT ![ph] = q] /\ Passed(s)
    BY <1>1, <1>5, <2>1, <2>4 DEF Claim
  <2>6. /\ q \in Seq(CodeType) /\ Len(q) = Len(codes[ph]) /\ DOMAIN q = DOMAIN codes[ph]
        /\ \A j \in DOMAIN q : q[j] = IF j = i THEN new ELSE codes[ph][j]
    <3>1. codes[ph] \in Seq(CodeType)
      BY <1>2, <1>3
    <3> QED
      BY <1>3, <2>3, <2>4, <3>1, CodeSet
  <2>7. Len(codes[ph]) \in Nat
    BY <1>2, <1>3
  <2>8. \A j \in DOMAIN codes[ph] : codes[ph][j].used <= 1 /\ (~codes[ph][j].consumed => codes[ph][j].used = 0)
    BY <1>3 DEF AccountsInv, CodesOK
  <2>9. Keeps(q, codes[ph])
    BY <2>3, <2>6, <2>7, <2>8 DEF Keeps, Kept
  <2>10. PICK c \in CallType : c.pc # "guess" /\ InHands(c)' /\ Finds(c)' /\ call' = [call EXCEPT ![s] = c]
    BY <1>2, <2>5, PassedOn
  <2>11. /\ codes' \in [Phones -> Seq(CodeType)] /\ CodesOK'
         /\ \A p \in Phones : DOMAIN codes[p] \subseteq DOMAIN codes'[p]
    BY <1>3, <2>5, <2>9, <2>10, CodesMove
  <2> QED
    BY <1>2, <2>10, <2>11, TablesStay, SessionStays, TurnInv
<1> QED
  BY <1>4, <1>5

\* A wrong code is counted, and one fewer is about to be.
LEMMA GuessInv ==
    ASSUME AccountsInv, NEW s \in Calls, Guess(s)
    PROVE  AccountsInv'
<1>1. PICK ph, i : ph = call[s].login /\ i = call[s].code
  OBVIOUS
<1>2. /\ call[s].pc = "guess" /\ UNCHANGED <<Tables, session>>
      /\ call[s] \in CallType /\ InHands(call[s]) /\ codes \in [Phones -> Seq(CodeType)]
      /\ call \in [Calls -> CallType] /\ call' = [call EXCEPT ![s] = NoCall]
  BY DEF Guess, Stands, AccountsInv, AccountsTypeOK, Ends
<1>3. ph \in Phones /\ i \in DOMAIN codes[ph]
  BY <1>1, <1>2 DEF InHands
<1>4. /\ codes[ph] \in Seq(CodeType) /\ codes[ph][i] \in CodeType
      /\ DOMAIN codes[ph] = 1 .. Len(codes[ph]) /\ Len(codes[ph]) \in Nat
  BY <1>2, <1>3
<1>5. PICK old \in CodeType : old = codes[ph][i]
  BY <1>4
<1>6. /\ old.tries + Cardinality(Guessers(ph, i)) <= MaxAttempts + Cardinality(Calls)
      /\ old.used <= 1 /\ (~old.consumed => old.used = 0)
  BY <1>3, <1>5 DEF AccountsInv, CodesOK
<1>7. /\ Guessers(ph, i)' = Guessers(ph, i) \ {s} /\ s \in Guessers(ph, i)
  <2>1. \A t \in Calls : call'[t] = IF t = s THEN NoCall ELSE call[t]
    BY <1>2
  <2>2. Guessers(ph, i)' = {t \in Calls : call'[t].pc = "guess" /\ call'[t].login = ph /\ call'[t].code = i}
    BY DEF Guessers
  <2> QED
    BY <1>1, <1>2, <2>1, <2>2, NoCallFits DEF Guessers
<1>8. /\ Cardinality(Guessers(ph, i))' = Cardinality(Guessers(ph, i)) - 1
      /\ Cardinality(Guessers(ph, i)) \in Nat /\ Cardinality(Guessers(ph, i))' \in Nat
      /\ Cardinality(Calls) \in Nat /\ MaxAttempts \in Nat
  <2>1. IsFiniteSet(Guessers(ph, i)) /\ Cardinality(Guessers(ph, i)) \in Nat /\ Cardinality(Calls) \in Nat
    BY GuessersBound
  <2>2. Cardinality(Guessers(ph, i) \ {s}) = Cardinality(Guessers(ph, i)) - 1
    BY <1>7, <2>1, FS_RemoveElement
  <2>3. IsFiniteSet(Guessers(ph, i) \ {s})
    BY <2>1, FS_Subset
  <2>4. Cardinality(Guessers(ph, i) \ {s}) \in Nat
    BY <2>3, FS_CardinalityType
  <2> QED
    BY <1>7, <2>1, <2>2, <2>4, AccountsAssumption
<1>9. PICK tries \in Nat : tries = old.tries + 1
  BY <1>8 DEF CodeType
<1>10. tries + Cardinality(Guessers(ph, i))' <= MaxAttempts + Cardinality(Calls)
  <2>1. old.tries \in Nat
    BY <1>8 DEF CodeType
  <2> QED
    BY <1>6, <1>8, <1>9, <2>1
<1>11. PICK new : new = [old EXCEPT !.tries = tries]
  OBVIOUS
<1>12. /\ new \in CodeType /\ new.tries = tries /\ new.used = old.used
       /\ new.consumed = old.consumed
  <2>1. tries \in 0 .. MaxAttempts + Cardinality(Calls)
    BY <1>8, <1>9, <1>10
  <2> QED
    BY <1>11, <2>1 DEF CodeType
<1>13. PICK q : q = [codes[ph] EXCEPT ![i] = new]
  OBVIOUS
<1>14. /\ q \in Seq(CodeType) /\ Len(q) = Len(codes[ph]) /\ DOMAIN q = DOMAIN codes[ph]
       /\ \A j \in DOMAIN codes[ph] : q[j] = IF j = i THEN new ELSE codes[ph][j]
  BY <1>3, <1>4, <1>12, <1>13, CodeSet
<1>15. codes' = [codes EXCEPT ![ph] = q]
  BY <1>1, <1>2, <1>3, <1>5, <1>9, <1>11, <1>13 DEF Guess
<1>16. codes' \in [Phones -> Seq(CodeType)]
  BY <1>2, <1>14, <1>15
<1>17. \A p \in Phones : codes'[p] = IF p = ph THEN q ELSE codes[p]
  BY <1>2, <1>15
<1>18. \A p \in Phones : DOMAIN codes[p] \subseteq DOMAIN codes'[p]
  BY <1>14, <1>17
<1>19. ASSUME NEW p \in Phones, NEW j \in DOMAIN codes'[p]
       PROVE  /\ codes'[p][j].used <= 1
              /\ ~codes'[p][j].consumed => codes'[p][j].used = 0
              /\ codes'[p][j].tries + Cardinality(Guessers(p, j))' <= MaxAttempts + Cardinality(Calls)
  <2>1. CASE p = ph /\ j = i
    <3>1. codes'[p][j] = new
      BY <1>3, <1>14, <1>17, <2>1
    <3>2. Cardinality(Guessers(p, j))' = Cardinality(Guessers(ph, i))'
      BY <2>1
    <3> QED
      BY <1>6, <1>10, <1>12, <3>1, <3>2
  <2>2. CASE ~(p = ph /\ j = i)
    <3>1. codes'[p][j] = codes[p][j] /\ j \in DOMAIN codes[p]
      BY <1>14, <1>17, <1>19, <2>2
    <3>2. /\ codes[p][j].used <= 1
          /\ ~codes[p][j].consumed => codes[p][j].used = 0
          /\ codes[p][j].tries + Cardinality(Guessers(p, j)) <= MaxAttempts + Cardinality(Calls)
      BY <3>1 DEF AccountsInv, CodesOK
    <3>3. codes[p][j] \in CodeType
      BY <1>2, <3>1
    <3>4. codes[p][j].tries \in Nat
      BY <1>8, <3>3 DEF CodeType
    <3>5. /\ Cardinality(Guessers(p, j))' \in Nat /\ Cardinality(Guessers(p, j)) \in Nat
          /\ Cardinality(Guessers(p, j))' <= Cardinality(Guessers(p, j))
      BY <1>2, FewerGuess, GuessersBound, NoCallFits
    <3> QED
      BY <1>8, <3>1, <3>2, <3>4, <3>5
  <2> QED
    BY <2>1, <2>2
<1>20. CodesOK'
  BY <1>19 DEF CodesOK
<1> QED
  BY <1>2, <1>16, <1>18, <1>20, NoCallFits, TablesStay, SessionStays, TurnInv

\* The code that is outstanding is looked up: a wrong one is tried while
\* there are attempts left.
LEMMA EnterInv ==
    ASSUME AccountsInv, NEW s \in Calls, NEW op \in {"signin", "link", "reset"},
           NEW ph \in Phones, NEW u \in For(op), EnterCode(s, op, ph, u)
    PROVE  AccountsInv'
<1>1. /\ codes \in [Phones -> Seq(CodeType)] /\ call \in [Calls -> CallType]
      /\ UNCHANGED <<Tables, codes, session>> /\ call[s].pc = "idle"
  BY DEF EnterCode, Begin, Stands, Proofs, AccountsInv, AccountsTypeOK
<1>2. PICK i \in DOMAIN codes[ph], right \in BOOLEAN :
        /\ codes[ph][i].tries < MaxAttempts
        /\ call' = [call EXCEPT ![s] = [NoCall EXCEPT !.pc = IF right THEN "claim" ELSE "guess",
                                          !.op = op, !.login = ph, !.user = u, !.code = i]]
  BY DEF EnterCode, Begin, Outstanding
<1>3. PICK c : c = [NoCall EXCEPT !.pc = IF right THEN "claim" ELSE "guess",
                          !.op = op, !.login = ph, !.user = u, !.code = i]
  OBVIOUS
<1>4. i \in Nat /\ ph \in Logins /\ u \in Users \union {None} /\ (op = "link" => u \in Users)
  BY <1>1, LoginFacts DEF For
<1>5. /\ c \in CallType /\ c.pc = (IF right THEN "claim" ELSE "guess") /\ c.op = op
      /\ c.login = ph /\ c.user = u /\ c.code = i /\ c.gone = {}
  BY <1>3, <1>4 DEF NoCall, CallType, Stages
<1>6. InHands(c) /\ Finds(c)
  BY <1>2, <1>4, <1>5 DEF InHands, Finds
<1>7. call' = [call EXCEPT ![s] = c]
  BY <1>2, <1>3
<1>8. CASE right
  BY <1>1, <1>5, <1>6, <1>7, <1>8, QuietInv
<1>9. CASE ~right
  <2>1. InHands(c)' /\ Finds(c)'
    BY <1>1, <1>6 DEF InHands, Finds, Owns, Tables
  <2>2. ASSUME NEW p \in Phones, NEW j \in DOMAIN codes'[p]
        PROVE  /\ codes'[p][j].used <= 1
               /\ ~codes'[p][j].consumed => codes'[p][j].used = 0
               /\ codes'[p][j].tries + Cardinality(Guessers(p, j))' <= MaxAttempts + Cardinality(Calls)
    <3>1. codes'[p][j] = codes[p][j] /\ j \in DOMAIN codes[p] /\ codes[p][j] \in CodeType
      BY <1>1, <2>2
    <3>2. /\ codes[p][j].used <= 1
          /\ ~codes[p][j].consumed => codes[p][j].used = 0
          /\ codes[p][j].tries + Cardinality(Guessers(p, j)) <= MaxAttempts + Cardinality(Calls)
      BY <3>1 DEF AccountsInv, CodesOK
    <3>3. /\ IsFiniteSet(Guessers(p, j)) /\ Cardinality(Guessers(p, j)) \in Nat
          /\ Cardinality(Calls) \in Nat /\ MaxAttempts \in Nat /\ IsFiniteSet(Calls)
      BY GuessersBound, AccountsAssumption
    <3>4. codes[p][j].tries \in Nat
      BY <3>1, <3>3 DEF CodeType
    <3>5. CASE p = ph /\ j = i
      <4>1. Guessers(p, j)' \subseteq Calls
        BY DEF Guessers
      <4>2. /\ Cardinality(Guessers(p, j)') <= Cardinality(Calls)
            /\ Cardinality(Guessers(p, j)') \in Nat
        BY <3>3, <4>1, FS_Subset, FS_CardinalityType
      <4>3. Cardinality(Guessers(p, j))' = Cardinality(Guessers(p, j)')
        OBVIOUS
      <4>4. codes[p][j].tries < MaxAttempts
        BY <1>2, <3>5
      <4> QED
        BY <3>1, <3>2, <3>3, <3>4, <4>2, <4>3, <4>4
    <3>6. CASE ~(p = ph /\ j = i)
      <4>1. \A t \in Calls : call'[t] = IF t = s THEN c ELSE call[t]
        BY <1>1, <1>7
      <4>2. Guessers(p, j)' = {t \in Calls : call'[t].pc = "guess" /\ call'[t].login = p /\ call'[t].code = j}
        BY DEF Guessers
      <4>3. Guessers(p, j)' \subseteq Guessers(p, j)
        BY <1>5, <3>6, <4>1, <4>2 DEF Guessers
      <4>4. /\ Cardinality(Guessers(p, j)') <= Cardinality(Guessers(p, j))
            /\ Cardinality(Guessers(p, j)') \in Nat
        BY <3>3, <4>3, FS_Subset, FS_CardinalityType
      <4>5. Cardinality(Guessers(p, j))' = Cardinality(Guessers(p, j)')
        OBVIOUS
      <4> QED
        BY <3>1, <3>2, <3>3, <3>4, <4>4, <4>5
    <3> QED
      BY <3>5, <3>6
  <2>3. CodesOK'
    BY <2>2 DEF CodesOK
  <2>4. codes' \in [Phones -> Seq(CodeType)] /\ \A p \in Phones : DOMAIN codes[p] \subseteq DOMAIN codes'[p]
    BY <1>1
  <2> QED
    BY <1>1, <1>5, <1>7, <2>1, <2>3, <2>4, TablesStay, SessionStays, TurnInv
<1> QED
  BY <1>8, <1>9

\* The bot's confirmation and the poll that claims it.
LEMMA BotInv ==
    ASSUME AccountsInv, NEW s \in Calls, Outdate(s) \/ Confirm(s) \/ PollClaim(s)
    PROVE  AccountsInv'
<1>1. /\ session \in SessionType /\ SessionOK /\ call[s] \in CallType /\ InHands(call[s])
      /\ UNCHANGED <<Tables, codes>>
  BY DEF Outdate, Confirm, PollClaim, AccountsInv, AccountsTypeOK
<1>2. session.issued \in Nat /\ session.confirmed \in Nat
  BY <1>1 DEF SessionType
<1>3. ASSUME NEW c \in CallType, c.pc # "guess", InHands(c)', Finds(c)',
             call' = [call EXCEPT ![s] = c], session' \in SessionType, SessionOK'
      PROVE  AccountsInv'
  BY <1>1, <1>3, TablesStay, CodesStay, TurnInv
<1>4. CASE Outdate(s)
  <2>1. session' \in SessionType /\ SessionOK'
    BY <1>1, <1>2, <1>4 DEF Outdate, SessionType, SessionOK
  <2> QED
    BY <1>3, <1>4, <2>1, NoCallFits DEF Outdate, Ends
<1>5. CASE Confirm(s)
  <2>1. call[s].login \in Telegrams
    BY <1>1, <1>5 DEF Confirm, Stands, InHands
  <2>2. PICK confirmed \in Nat : confirmed = session.confirmed + 1
    BY <1>2
  <2>3. session' = [session EXCEPT !.status = "CONFIRMED", !.tid = call[s].login,
                                   !.confirmed = confirmed]
    BY <1>5, <2>2 DEF Confirm
  <2>4. /\ session' \in SessionType /\ session'.status = "CONFIRMED"
        /\ session'.tid = call[s].login /\ session'.confirmed = confirmed
        /\ session'.issued = session.issued
    BY <1>1, <2>1, <2>3 DEF SessionType
  <2>5. SessionOK'
    BY <1>1, <1>2, <2>1, <2>2, <2>4 DEF SessionOK
  <2> QED
    BY <1>3, <1>5, <2>4, <2>5, NoCallFits DEF Confirm, Ends
<1>6. CASE PollClaim(s) /\ session.status # "CONFIRMED"
  <2>1. Ends(s) /\ UNCHANGED session
    BY <1>6 DEF PollClaim
  <2> QED
    BY <1>1, <2>1, EndsInv
<1>7. CASE PollClaim(s) /\ session.status = "CONFIRMED"
  <2>1. PICK issued \in Nat : issued = session.issued + 1
    BY <1>2
  <2>2. session' = [session EXCEPT !.status = "CONSUMED", !.issued = issued] /\ Passed(s)
    BY <1>7, <2>1 DEF PollClaim
  <2>3. /\ session' \in SessionType /\ session'.status = "CONSUMED"
        /\ session'.confirmed = session.confirmed /\ session'.issued = issued
    BY <1>1, <2>2 DEF SessionType
  <2>4. SessionOK'
    BY <1>1, <1>2, <1>7, <2>1, <2>3 DEF SessionOK
  <2>5. PICK c \in CallType : c.pc # "guess" /\ InHands(c)' /\ Finds(c)' /\ call' = [call EXCEPT ![s] = c]
    BY <1>7, <2>2, PassedOn DEF PollClaim, Stands
  <2> QED
    BY <1>3, <2>3, <2>4, <2>5
<1> QED
  BY <1>4, <1>5, <1>6, <1>7

\* Time passes, or a session is started: no request moves.
LEMMA StillInv ==
    ASSUME AccountsInv, UNCHANGED <<Tables, call>>,
           codes' \in [Phones -> Seq(CodeType)], CodesOK',
           \A ph \in Phones : DOMAIN codes[ph] \subseteq DOMAIN codes'[ph],
           session' \in SessionType, SessionOK'
    PROVE  AccountsInv'
<1>1. call' = call /\ TablesTyped' /\ TablesOK' /\ Moves
  BY TablesStay
<1>2. AccountsTypeOK'
  BY <1>1 DEF AccountsInv, AccountsTypeOK, TablesTyped
<1>3. ASSUME NEW t \in Calls, NEW d, d = call[t] PROVE InHands(d)' /\ Finds(d)'
  <2>1. InHands(d)
    BY <1>3 DEF AccountsInv
  <2>2. InHands(d)'
    BY <2>1 DEF InHands
  <2> QED
    BY <1>1, <1>3, <2>2, FindsKept
<1>4. \A t \in Calls : (InHands(call[t]) /\ Finds(call[t]))'
  BY <1>1, <1>3
<1> QED
  BY <1>1, <1>2, <1>4 DEF AccountsInv

\* What is not a request: a session is started, time passes.
LEMMA WorldInv ==
    ASSUME AccountsInv,
           \/ \E u \in Users \union {None} : StartSession(u)
           \/ SessionExpires
           \/ \E ph \in Phones : \E i \in DOMAIN codes[ph] : CodeAges(ph, i)
    PROVE  AccountsInv'
<1>1. /\ session \in SessionType /\ SessionOK /\ codes \in [Phones -> Seq(CodeType)]
  BY DEF AccountsInv, AccountsTypeOK
<1>2. ASSUME session' \in SessionType, SessionOK', UNCHANGED <<Tables, codes, call>>
      PROVE  AccountsInv'
  BY <1>2, StillInv, CodesStay, NoCallFits
<1>3. ASSUME NEW u \in Users \union {None}, StartSession(u) PROVE AccountsInv'
  <2>1. session' \in SessionType /\ SessionOK'
    BY <1>1, <1>3 DEF StartSession, SessionType, SessionOK
  <2> QED
    BY <1>2, <1>3, <2>1 DEF StartSession
<1>4. CASE SessionExpires
  <2>1. session' \in SessionType /\ SessionOK'
    BY <1>1, <1>4 DEF SessionExpires, SessionType, SessionOK
  <2> QED
    BY <1>2, <1>4, <2>1 DEF SessionExpires
<1>5. ASSUME NEW ph \in Phones, NEW i \in DOMAIN codes[ph], CodeAges(ph, i) PROVE AccountsInv'
  <2>1. /\ codes[ph] \in Seq(CodeType) /\ codes[ph][i] \in CodeType
        /\ DOMAIN codes[ph] = 1 .. Len(codes[ph]) /\ Len(codes[ph]) \in Nat
    BY <1>1
  <2>2. PICK old \in CodeType : old = codes[ph][i]
    BY <2>1
  <2>3. PICK age \in {"fresh", "cool", "expired"} : age = IF old.age = "fresh" THEN "cool" ELSE "expired"
    OBVIOUS
  <2>4. PICK new : new = [old EXCEPT !.age = age]
    OBVIOUS
  <2>5. /\ new \in CodeType /\ new.tries = old.tries /\ new.used = old.used
        /\ new.consumed = old.consumed
    BY <2>4 DEF CodeType
  <2>6. PICK q : q = [codes[ph] EXCEPT ![i] = new]
    OBVIOUS
  <2>7. /\ q \in Seq(CodeType) /\ Len(q) = Len(codes[ph]) /\ DOMAIN q = DOMAIN codes[ph]
        /\ \A j \in DOMAIN codes[ph] : q[j] = IF j = i THEN new ELSE codes[ph][j]
    BY <2>1, <2>5, <2>6, CodeSet
  <2>8. codes' = [codes EXCEPT ![ph] = q]
    BY <1>1, <1>5, <2>2, <2>3, <2>4, <2>6 DEF CodeAges
  <2>9. \A j \in DOMAIN codes[ph] : codes[ph][j].used <= 1 /\ (~codes[ph][j].consumed => codes[ph][j].used = 0)
    BY DEF AccountsInv, CodesOK
  <2>10. Keeps(q, codes[ph])
    BY <2>1, <2>2, <2>5, <2>7, <2>9 DEF Keeps, Kept
  <2>11. /\ codes' \in [Phones -> Seq(CodeType)] /\ CodesOK'
         /\ \A p \in Phones : DOMAIN codes[p] \subseteq DOMAIN codes'[p]
    BY <1>5, <2>8, <2>10, CodesMove, NoCallFits DEF CodeAges
  <2> QED
    BY <1>5, <2>11, StillInv, SessionStays DEF CodeAges
<1> QED
  BY <1>3, <1>4, <1>5

\* Every request ends when the process does.
LEMMA RestartInv ==
    ASSUME AccountsInv, AccountsRestart
    PROVE  AccountsInv'
<1>1. /\ call' = [s \in Calls |-> NoCall] /\ UNCHANGED <<Tables, codes, session>>
      /\ codes \in [Phones -> Seq(CodeType)]
  BY DEF AccountsRestart, Proofs, AccountsInv, AccountsTypeOK
<1>2. TablesTyped' /\ TablesOK' /\ session' \in SessionType /\ SessionOK'
  BY <1>1, TablesStay, SessionStays
<1>3. AccountsTypeOK'
  BY <1>1, <1>2, NoCallFits DEF AccountsTypeOK, TablesTyped
<1>4. CodesOK'
  <2> SUFFICES ASSUME NEW p \in Phones, NEW j \in DOMAIN codes[p]
               PROVE  /\ codes[p][j].used <= 1
                      /\ ~codes[p][j].consumed => codes[p][j].used = 0
                      /\ codes[p][j].tries + Cardinality(Guessers(p, j))' <= MaxAttempts + Cardinality(Calls)
    BY <1>1 DEF CodesOK
  <2>1. /\ codes[p][j].used <= 1
        /\ ~codes[p][j].consumed => codes[p][j].used = 0
        /\ codes[p][j].tries + Cardinality(Guessers(p, j)) <= MaxAttempts + Cardinality(Calls)
    BY DEF AccountsInv, CodesOK
  <2>2. Guessers(p, j)' = {t \in Calls : call'[t].pc = "guess" /\ call'[t].login = p /\ call'[t].code = j}
    BY DEF Guessers
  <2>3. Guessers(p, j)' = {}
    BY <1>1, <2>2, NoCallFits
  <2>4. Cardinality(Guessers(p, j))' = 0
    BY <2>3, FS_EmptySet
  <2>5. /\ Cardinality(Guessers(p, j)) \in Nat /\ Cardinality(Calls) \in Nat /\ MaxAttempts \in Nat
    BY GuessersBound, AccountsAssumption
  <2>6. codes[p][j] \in CodeType
    BY <1>1
  <2>7. codes[p][j].tries \in Nat
    BY <2>5, <2>6 DEF CodeType
  <2> QED
    BY <2>1, <2>4, <2>5, <2>7
<1>5. ASSUME NEW s \in Calls, NEW c, c = call'[s] PROVE InHands(c)' /\ Finds(c)'
  <2>1. c = NoCall
    BY <1>1, <1>5
  <2> QED
    BY <2>1, NoCallFits
<1>6. \A s \in Calls : (InHands(call[s]) /\ Finds(call[s]))'
  BY <1>5
<1> QED
  BY <1>2, <1>3, <1>4, <1>6 DEF AccountsInv

-----------------------------------------------------------------------------
\* The first state.
LEMMA AccountsInitInv == AccountsInit => AccountsInv
<1> SUFFICES ASSUME AccountsInit PROVE AccountsInv
  OBVIOUS
<1> DEFINE nobody == [state |-> "none", contact |-> NoContact]
<1>1. nobody \in UserType /\ \A p \in Contacts : nobody.contact[p] = None
  BY DEF UserType, NoContact
<1>2. /\ ids = {} /\ removed = {} /\ codes = [ph \in Phones |-> << >>]
      /\ session = [status |-> "none", late |-> FALSE, tid |-> None, link |-> None,
                    confirmed |-> 0, issued |-> 0]
      /\ call = [s \in Calls |-> NoCall]
  BY DEF AccountsInit
<1>3. codes \in [Phones -> Seq(CodeType)] /\ CodesOK
  BY <1>2 DEF CodesOK
<1>4. session \in SessionType /\ SessionOK
  BY <1>2 DEF SessionType, SessionOK
<1>5. call \in [Calls -> CallType] /\ \A s \in Calls : InHands(call[s]) /\ Finds(call[s])
  BY <1>2, NoCallFits
<1>6. \/ users = [u \in Users |-> nobody]
      \/ \E admin \in Users, number \in Phones :
           users = [u \in Users |-> IF u = admin THEN NewUser(number) ELSE nobody]
  BY DEF AccountsInit
<1> HIDE DEF nobody
<1>7. CASE users = [u \in Users |-> nobody]
  <2>1. users \in [Users -> UserType] /\ \A u \in Users : users[u] = nobody
    BY <1>1, <1>7
  <2>2. \A u \in Users, l \in Logins : ~Owns(u, l)
    BY <1>1, <2>1, LoginFacts DEF Owns
  <2>3. TablesOK
    BY <1>1, <1>2, <2>1, <2>2
       DEF TablesOK, Kinds, OneUser, OneOwner, OwnersSignIn, OneSeeded, Held
  <2> QED
    BY <1>2, <1>3, <1>4, <1>5, <2>1, <2>3 DEF AccountsInv, AccountsTypeOK
<1>8. ASSUME NEW admin \in Users, NEW number \in Phones,
             users = [u \in Users |-> IF u = admin THEN NewUser(number) ELSE nobody]
      PROVE  AccountsInv
  <2>1. PICK rec : rec = NewUser(number)
    OBVIOUS
  <2>2. number \in Logins /\ Provider(number) = "PHONE"
    BY LoginFacts
  <2>3. rec \in UserType /\ \A p \in Contacts : rec.contact[p] = IF p = "PHONE" THEN number ELSE None
    BY <2>1, <2>2 DEF NewUser, UserType
  <2>4. users \in [Users -> UserType] /\ \A u \in Users : users[u] = IF u = admin THEN rec ELSE nobody
    BY <1>1, <1>8, <2>1, <2>3
  <2>5. \A u \in Users, l \in Logins : Owns(u, l) => u = admin /\ l = number
    BY <1>1, <2>3, <2>4, LoginFacts DEF Owns
  <2>6. Kinds
    BY <1>1, <2>2, <2>3, <2>4 DEF Kinds
  <2>7. TablesOK
    BY <1>2, <2>5, <2>6 DEF TablesOK, OneUser, OneOwner, OwnersSignIn, OneSeeded, Held
  <2> QED
    BY <1>2, <1>3, <1>4, <1>5, <2>4, <2>7 DEF AccountsInv, AccountsTypeOK
<1> QED
  BY <1>6, <1>7, <1>8

\* Every step of every request, and of what is none.
LEMMA AccountsNextInv == AccountsInv /\ [AccountsNext]_accountVars => AccountsInv'
<1> SUFFICES ASSUME AccountsInv, [AccountsNext]_accountVars PROVE AccountsInv'
  OBVIOUS
<1>1. ASSUME NEW s \in Calls, Comes(s) PROVE AccountsInv'
  <2>1. CASE \E ph \in Phones, op \in {"signin", "link", "reset"} : \E u \in For(op) : EnterCode(s, op, ph, u)
    BY <2>1, EnterInv
  <2>2. CASE ~\E ph \in Phones, op \in {"signin", "link", "reset"} : \E u \in For(op) : EnterCode(s, op, ph, u)
    BY <1>1, <2>2, AsksInv DEF Comes
  <2> QED
    BY <2>1, <2>2
<1>2. ASSUME NEW s \in Calls, Proceeds(s) PROVE AccountsInv'
  BY <1>2, SendsInv, GuessInv, ClaimInv, BotInv, ResolveFindInv, TouchInv, CreateInv, LeaveInv,
     LinkInv, UnlinkInv, ScrubInv DEF Proceeds
<1>3. CASE UNCHANGED accountVars
  <2>1. UNCHANGED <<Tables, call, codes, session>>
    BY <1>3 DEF accountVars, Tables
  <2> QED
    BY <2>1, StillInv, CodesStay, SessionStays, NoCallFits
<1> QED
  BY <1>1, <1>2, <1>3, WorldInv, RestartInv DEF AccountsNext

\* The tables, the proofs and what each request holds of them.
LEMMA AccountsInvariant == AccountsSpec => []AccountsInv
<1>1. AccountsInit => AccountsInv
  BY AccountsInitInv
<1>2. AccountsInv /\ [AccountsNext]_accountVars => AccountsInv'
  BY AccountsNextInv
<1> QED
  BY <1>1, <1>2, PTL DEF AccountsSpec

\* Whoever sends the right code, signing in, linking or resetting, and
\* whichever polls overlap, a code lets one request through and a press of
\* the bot's button lets one poll issue tokens.
THEOREM ProofsWorkOnce == AccountsSpec => []EachProofWorksOnce
<1>1. AccountsInv => EachProofWorksOnce
  <2> SUFFICES ASSUME AccountsInv PROVE EachProofWorksOnce
    OBVIOUS
  <2>1. session.issued \in Nat /\ session.confirmed \in Nat
    BY DEF AccountsInv, AccountsTypeOK, SessionType
  <2>2. session.issued <= session.confirmed
    BY <2>1 DEF AccountsInv, SessionOK
  <2> QED
    BY <2>2 DEF AccountsInv, CodesOK, EachProofWorksOnce
<1> QED
  BY <1>1, AccountsInvariant, PTL

\* Requests that end signed in with one provider account are signed in to
\* one user, also when their first sign-ins race each other, links and
\* deletions, unless the provider account was taken off a user.
THEOREM OneAccountEach == AccountsSpec => []SameAccount
<1>1. AccountsInv => SameAccount
  <2> SUFFICES ASSUME AccountsInv, NEW s \in Calls, NEW t \in Calls,
                      call[s].pc = "in", call[t].pc = "in", call[s].login = call[t].login,
                      call[s].login \notin removed
               PROVE  call[s].user = call[t].user
    BY DEF SameAccount, Stands
  <2>1. /\ InHands(call[s]) /\ Finds(call[s]) /\ InHands(call[t]) /\ Finds(call[t]) /\ OneUser
    BY DEF AccountsInv, TablesOK
  <2>2. /\ call[s].user \in Users /\ call[t].user \in Users /\ call[s].login \in Logins
        /\ <<call[s].user, call[s].login>> \in ids /\ <<call[t].user, call[s].login>> \in ids
    BY <2>1 DEF InHands, Finds
  <2> QED
    BY <2>1, <2>2 DEF OneUser
<1> QED
  BY <1>1, AccountsInvariant, PTL

\* A number or an address goes with the identity that verified it, however
\* unlinking, deletions and sign-ins overlap.
THEOREM ContactsAreHeld == AccountsSpec => []ContactIsHeld
<1>1. AccountsInv => ContactIsHeld
  <2> SUFFICES ASSUME AccountsInv, NEW u \in Users, NEW p \in Contacts, NEW l,
                      l = users[u].contact[p], l # None
               PROVE  <<u, l>> \in ids \/ l \notin removed
    BY DEF ContactIsHeld, AccountsInv
  <2>1. Kinds /\ Held
    BY DEF AccountsInv, TablesOK
  <2>2. l \in Logins /\ Provider(l) = p
    BY <2>1 DEF Kinds
  <2> QED
    BY <2>1, <2>2 DEF Held, Owns
<1> QED
  BY <1>1, AccountsInvariant, PTL
=============================================================================
