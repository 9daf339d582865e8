------------------------------ MODULE Sessions ------------------------------
(***************************************************************************)
(* One account's sessions: TokenService (refresh tokens in families, one   *)
(* family per sign-in), the account row it shares with moderation, and     *)
(* JwtAccessGuard, which decides every request from a cached copy of that  *)
(* row.                                                                    *)
(*                                                                         *)
(* Each handler awaits the database between its statements, and none of    *)
(* them opens a transaction, so the statements of different requests       *)
(* interleave: a handler is a record with a program counter, and every     *)
(* statement is an action.  Every query names one user, so accounts do not *)
(* interact and one is enough.                                             *)
(***************************************************************************)
EXTENDS Integers, Sequences, FiniteSets

CONSTANTS
    Slots,      \* requests the process is serving at once
    NoState,    \* the guard has nothing cached
    MaxTokens   \* bound: pairs ever issued

ASSUME SessionsAssumption == MaxTokens \in Nat \ {0}

VARIABLES
    tokens,   \* refresh_tokens, in the order issued
    account,  \* the users row: status, deleted_at, tokens_valid_from
    cache,    \* JwtAccessGuard.cache for this user
    req       \* the handlers

vars == <<tokens, account, cache, req>>

Ids == 1..MaxTokens

\* A refresh_tokens row.  A family is named by the first token issued in it;
\* `from` is the token whose rotation issued this one, 0 for a sign-in.
\* "expired" is past expires_at and not revoked, "purged" is deleted.
TokenType ==
    [family : Ids, from : Ids \union {0},
     state : {"live", "expired", "revoked", "purged"}]

Statuses == {"ACTIVE", "BANNED", "DELETED"}

\* tokens_valid_from, by how many pairs had been issued by then: the access
\* tokens of pairs 1..validFrom were issued before it, and 0 is NULL.  (Access
\* tokens of the same second as the logout, which the guard lets through, are
\* not told apart.)
AccountType == [status : Statuses, validFrom : Ids \union {0}]

\* What a handler will do next, and what it has in hand: the token it presents
\* or replaces, the family it works on, the account row it read.
Steps == {"idle", "claim", "burn", "issue", "revokeAll", "validFrom",
          "invalidate", "store"}

ReqType ==
    [pc : Steps, token : Ids \union {0}, family : Ids \union {0},
     user : Statuses \union {"none"}, seen : AccountType \union {NoState},
     now : Ids \union {0},
     thenIssue : BOOLEAN]

Idle == [pc |-> "idle", token |-> 0, family |-> 0, user |-> "none",
         seen |-> NoState, now |-> 0, thenIssue |-> FALSE]

TypeOK ==
    /\ tokens \in Seq(TokenType) /\ Len(tokens) <= MaxTokens
    /\ account \in AccountType
    /\ cache \in AccountType \union {NoState}
    /\ req \in [Slots -> ReqType]

Init ==
    /\ tokens = << >>
    /\ account = [status |-> "ACTIVE", validFrom |-> 0]
    /\ cache = NoState
    /\ req = [s \in Slots |-> Idle]

-----------------------------------------------------------------------------
At(s, pc) == req[s].pc = pc
Goto(s, pc) == req' = [req EXCEPT ![s].pc = pc]
Finish(s) == req' = [req EXCEPT ![s] = Idle]

\* UPDATE refresh_tokens SET revoked_at = now() WHERE <which> AND revoked_at IS NULL
Revoke(which) ==
    tokens' = [i \in DOMAIN tokens |->
                 IF i \in which /\ tokens[i].state \in {"live", "expired"}
                 THEN [tokens[i] EXCEPT !.state = "revoked"] ELSE tokens[i]]

OfFamily(f) == {i \in DOMAIN tokens : tokens[i].family = f}

-----------------------------------------------------------------------------
\* Every sign-in (verifyOtp, loginWithPassword, Google, Telegram) reads the
\* account, refuses a banned or deleted one, and then issues a pair.
SignIn(s) ==
    /\ At(s, "idle")
    /\ account.status = "ACTIVE"
    /\ Goto(s, "issue")
    /\ UNCHANGED <<tokens, account, cache>>

\* issuePair: in the presented token's family, or in a new one.
Issue(s) ==
    /\ At(s, "issue") /\ Len(tokens) < MaxTokens
    /\ LET new == Len(tokens) + 1
           old == req[s].token
       IN  tokens' = Append(tokens,
                       [family |-> IF old = 0 THEN new ELSE req[s].family,
                        from |-> old, state |-> "live"])
    /\ Finish(s)
    /\ UNCHANGED <<account, cache>>

\* rotate: the row of the presented token, with the user joined.  A replayed
\* token burns its family; an expired or unknown one is refused.
RotateFind(s, i) ==
    /\ At(s, "idle") /\ i \in DOMAIN tokens
    /\ \/ /\ tokens[i].state = "revoked"
          /\ req' = [req EXCEPT ![s].pc = "burn", ![s].family = tokens[i].family]
       \/ /\ tokens[i].state = "live"
          /\ req' = [req EXCEPT ![s].pc = "claim", ![s].token = i,
                                ![s].family = tokens[i].family, ![s].user = account.status]
    /\ UNCHANGED <<tokens, account, cache>>

\* What follows the claim is decided on the user read with the token.
Claimed(s) ==
    CASE req[s].user = "ACTIVE" -> Goto(s, "issue")
      [] req[s].user = "BANNED" -> req' = [req EXCEPT ![s] = [Idle EXCEPT !.pc = "revokeAll"]]
      [] req[s].user = "DELETED" -> Finish(s)

\* Faulty: the token is revoked by id alone, whoever revoked it first.
FaultyRotateClaim(s) ==
    /\ At(s, "claim")
    /\ Revoke({req[s].token})
    /\ Claimed(s)
    /\ UNCHANGED <<account, cache>>

\* The conditional UPDATE: the loser of a race burns the family.
RotateClaim(s) ==
    /\ At(s, "claim")
    /\ IF tokens[req[s].token].state \in {"live", "expired"}
       THEN Revoke({req[s].token}) /\ Claimed(s)
       ELSE Goto(s, "burn") /\ UNCHANGED tokens
    /\ UNCHANGED <<account, cache>>

\* revokeFamily, and TOKEN_REUSE_DETECTED.
Burn(s) ==
    /\ At(s, "burn")
    /\ Revoke(OfFamily(req[s].family))
    /\ Finish(s)
    /\ UNCHANGED <<account, cache>>

-----------------------------------------------------------------------------
\* revokeAllFor, three statements: the refresh tokens, tokens_valid_from with
\* the time taken at the start, and the guard's cache.  Logging out calls it
\* from an authenticated request.
Logout(s) ==
    /\ At(s, "idle") /\ tokens # << >>
    /\ Goto(s, "revokeAll")
    /\ UNCHANGED <<tokens, account, cache>>

RevokeAllTokens(s) ==
    /\ At(s, "revokeAll")
    /\ Revoke(DOMAIN tokens)
    /\ req' = [req EXCEPT ![s].pc = "validFrom", ![s].now = Len(tokens)]
    /\ UNCHANGED <<account, cache>>

SetValidFrom(s) ==
    /\ At(s, "validFrom")
    /\ account' = [account EXCEPT !.validFrom = req[s].now]
    /\ Goto(s, "invalidate")
    /\ UNCHANGED <<tokens, cache>>

\* JwtAccessGuard.invalidate, which ends every handler but resetPassword's.
Invalidate(s) ==
    /\ At(s, "invalidate")
    /\ cache' = NoState
    /\ IF req[s].thenIssue
       THEN req' = [req EXCEPT ![s] = [Idle EXCEPT !.pc = "issue"]]
       ELSE Finish(s)
    /\ UNCHANGED <<tokens, account>>

\* resetPassword: a new hash, every session ended, and a fresh one issued.
ResetPassword(s) ==
    /\ At(s, "idle") /\ account.status = "ACTIVE"
    /\ req' = [req EXCEPT ![s].pc = "revokeAll", ![s].thenIssue = TRUE]
    /\ UNCHANGED <<tokens, account, cache>>

\* AdminService.setUserStatus, and UsersService.deleteAccount once committed.
Ban(s) ==
    /\ At(s, "idle") /\ account.status # "DELETED"
    /\ account' = [account EXCEPT !.status = "BANNED"]
    /\ Goto(s, "revokeAll")
    /\ UNCHANGED <<tokens, cache>>

Unban(s) ==
    /\ At(s, "idle") /\ account.status # "DELETED"
    /\ account' = [account EXCEPT !.status = "ACTIVE"]
    /\ Goto(s, "invalidate")
    /\ UNCHANGED <<tokens, cache>>

DeleteAccount(s) ==
    /\ At(s, "idle") /\ account.status = "ACTIVE" /\ tokens # << >>
    /\ account' = [account EXCEPT !.status = "DELETED"]
    /\ Goto(s, "revokeAll")
    /\ UNCHANGED <<tokens, cache>>

\* revokeSession and revokeOtherSessions: one UPDATE each.
EndSession(f) ==
    /\ OfFamily(f) # {}
    /\ Revoke(OfFamily(f))
    /\ UNCHANGED <<account, cache, req>>

EndOtherSessions(f) ==
    /\ OfFamily(f) # {}
    /\ Revoke(DOMAIN tokens \ OfFamily(f))
    /\ UNCHANGED <<account, cache, req>>

-----------------------------------------------------------------------------
\* JwtAccessGuard: is the access token of pair i let through, given this state?
LetsIn(state, i) == state.status = "ACTIVE" /\ i > state.validFrom

\* getState: a hit decides at once and changes nothing; a miss reads the row,
\* and stores it and decides only when the answer is back.
GuardQuery(s) ==
    /\ At(s, "idle") /\ tokens # << >> /\ cache = NoState
    /\ req' = [req EXCEPT ![s].pc = "store", ![s].seen = account]
    /\ UNCHANGED <<tokens, account, cache>>

GuardStore(s) ==
    /\ At(s, "store")
    /\ cache' = req[s].seen
    /\ Finish(s)
    /\ UNCHANGED <<tokens, account>>

\* Faulty: an entry does not age.
FaultyCacheAges == FALSE /\ UNCHANGED vars

\* TTL_MS pass: the entry no longer counts.
CacheAges ==
    /\ cache # NoState
    /\ cache' = NoState
    /\ UNCHANGED <<tokens, account, req>>

-----------------------------------------------------------------------------
\* REFRESH_TTL_MS after it was issued; and again as long, when purgeExpired
\* deletes the row.
Expire(i) ==
    /\ i \in DOMAIN tokens /\ tokens[i].state = "live"
    /\ tokens' = [tokens EXCEPT ![i].state = "expired"]
    /\ UNCHANGED <<account, cache, req>>

Purge(i) ==
    /\ i \in DOMAIN tokens /\ tokens[i].state \in {"expired", "revoked"}
    /\ tokens' = [tokens EXCEPT ![i].state = "purged"]
    /\ UNCHANGED <<account, cache, req>>

\* The process stops and starts again: whatever was in memory is gone.
Restart ==
    /\ req' = [s \in Slots |-> Idle]
    /\ cache' = NoState
    /\ UNCHANGED <<tokens, account>>

\* A handler goes on.
Continue(s) ==
    \/ Issue(s) \/ RotateClaim(s) \/ Burn(s)
    \/ RevokeAllTokens(s) \/ SetValidFrom(s) \/ Invalidate(s)
    \/ GuardStore(s)

\* A request arrives.
Arrive(s) ==
    \/ SignIn(s) \/ Logout(s) \/ ResetPassword(s)
    \/ Ban(s) \/ Unban(s) \/ DeleteAccount(s)
    \/ \E i \in DOMAIN tokens : RotateFind(s, i)
    \/ GuardQuery(s)

Next ==
    \/ \E s \in Slots : Arrive(s) \/ Continue(s)
    \/ \E f \in Ids : EndSession(f) \/ EndOtherSessions(f)
    \/ CacheAges
    \/ \E i \in DOMAIN tokens : Expire(i) \/ Purge(i)
    \/ Restart

Spec == Init /\ [][Next]_vars

\* Handlers run to their end and cached entries age.
FairSpec ==
    Spec /\ WF_vars(CacheAges) /\ \A s \in Slots : WF_vars(Continue(s))

-----------------------------------------------------------------------------
\* README.md:87 -- "each refresh token works exactly once": two refreshes that
\* present the same token, however they interleave and whoever restarts in
\* between, never both get a new pair.
EachTokenWorksOnce ==
    \A i \in Ids :
      Cardinality({j \in DOMAIN tokens : tokens[j].from = i})
        + Cardinality({s \in Slots : At(s, "issue") /\ req[s].token = i}) <= 1

\* A session is one chain: a family never has two live tokens, nor a live token
\* and a rotation about to issue another.
OneLivePerFamily ==
    \A f \in Ids :
      Cardinality({i \in OfFamily(f) : tokens[i].state = "live"})
        + Cardinality({s \in Slots : At(s, "issue") /\ req[s].token # 0
                                     /\ req[s].family = f}) <= 1

\* What the guard lets in catches up with what was decided: when a ban, a pardon,
\* a deletion or a logout from everywhere stands, then in the end every access
\* token is judged by it, whichever queries were under way when it was made.
GuardCatchesUp ==
    \A i \in Ids : \A good \in BOOLEAN :
      <>[](LetsIn(account, i) = good)
        => <>[](cache # NoState => LetsIn(cache, i) = good)
=============================================================================
