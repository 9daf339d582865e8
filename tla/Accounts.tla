------------------------------ MODULE Accounts ------------------------------
(***************************************************************************)
(* Who a sign-in is: IdentityService (which provider account belongs to    *)
(* which user), and the two proofs it relies on that are used up when they *)
(* are used, the SMS codes of PhoneAuthService and the login sessions of   *)
(* TelegramAuthService.  Google proves itself with a signed token.  What a *)
(* sign-in then gets is module Sessions.                                   *)
(*                                                                         *)
(* The proofs are single statements, each committed by itself.  resolve,   *)
(* link, unlink and the deletion of an account are transactions at READ    *)
(* COMMITTED: each first reads what others have committed, and writes      *)
(* later, when only the unique indexes still stand in the way of a stale   *)
(* decision.                                                               *)
(***************************************************************************)
EXTENDS Integers, Sequences, FiniteSets

CONSTANTS
    Users,        \* accounts there may be (a bound)
    Phones, Googles, Telegrams,  \* provider accounts: provider_id values
    None,         \* a column that is NULL
    Calls,        \* requests being served at once
    MaxPerHour,   \* MAX_PER_HOUR; no hour passes here
    MaxAttempts,  \* MAX_ATTEMPTS
    MaxProofs     \* bound: codes saved and Telegram sessions started

ASSUME AccountsAssumption ==
    /\ MaxPerHour \in Nat /\ MaxProofs \in Nat /\ MaxAttempts \in Nat \ {0}
    /\ IsFiniteSet(Calls)
    /\ Phones \intersect Googles = {} /\ Phones \intersect Telegrams = {}
    /\ Googles \intersect Telegrams = {}
    /\ None \notin Users \union Phones \union Googles \union Telegrams

VARIABLES
    users,    \* users: deleted_at, and the verified contact details
    ids,      \* auth_identities
    codes,    \* phone_otp_codes, per phone, oldest first
    session,  \* one row of telegram_sessions
    call,     \* the requests
    removed   \* provider accounts ever unlinked or deleted (history)

accountVars == <<users, ids, codes, session, call, removed>>

Logins == Phones \union Googles \union Telegrams

\* AuthProvider.  PHONE verifies a number, GOOGLE an address (of the Google
\* accounts whose address is not verified, which prove as little as Telegram,
\* none is modelled), TELEGRAM nothing.
Provider(l) ==
    IF l \in Phones THEN "PHONE" ELSE IF l \in Googles THEN "GOOGLE" ELSE "TELEGRAM"
Contacts == {"PHONE", "GOOGLE"}
Providers == Contacts \union {"TELEGRAM"}

\* phone_number and email.
UserType ==
    [state : {"none", "live", "deleted"},
     contact : [Contacts -> Phones \union Googles \union {None}]]
NoContact == [p \in Contacts |-> None]
NewUser(l) ==
    [state |-> "live", contact |->
       [p \in Contacts |-> IF p = Provider(l) THEN l ELSE None]]

\* `used`, `confirmed` and `issued` are no columns: how many requests a code
\* let through, how often the bot's confirmation was saved, how many polls
\* claimed the session.
CodeType ==
    [age : {"fresh", "cool", "expired"}, consumed : BOOLEAN,
     tries : 0..MaxAttempts + Cardinality(Calls), used : Nat]

SessionType ==
    [status : {"none", "PENDING", "CONFIRMED", "CONSUMED", "EXPIRED"}, late : BOOLEAN,
     tid : Telegrams \union {None}, link : Users \union {None},
     confirmed : Nat, issued : Nat]

Stages == {"idle", "retire", "send", "guess", "claim", "confirm", "outdate", "poll",
          "find", "touch", "attach", "create", "in", "linkFind", "link",
          "unlink", "unlinkContact", "scrub"}

CallType ==
    [pc : Stages, op : {"none", "signin", "link", "reset"}, login : Logins \union {None},
     user : Users \union {None}, code : Nat, again : BOOLEAN,
     provider : Providers \union {None}, gone : SUBSET (Users \X Logins)]

NoCall == [pc |-> "idle", op |-> "none", login |-> None, user |-> None, code |-> 0,
         again |-> FALSE, provider |-> None, gone |-> {}]

AccountsTypeOK ==
    /\ users \in [Users -> UserType]
    /\ ids \subseteq Users \X Logins
    /\ codes \in [Phones -> Seq(CodeType)]
    /\ session \in SessionType
    /\ call \in [Calls -> CallType]
    /\ removed \subseteq Logins

\* Nobody, or an administrator whom AdminSeedService created at the start: a
\* number and a password, and no identity.
AccountsInit ==
    /\ LET nobody == [state |-> "none", contact |-> NoContact] IN
       \/ users = [u \in Users |-> nobody]
       \/ \E admin \in Users, number \in Phones :
            users = [u \in Users |-> IF u = admin THEN NewUser(number) ELSE nobody]
    /\ ids = {}
    /\ codes = [ph \in Phones |-> << >>]
    /\ session = [status |-> "none", late |-> FALSE, tid |-> None, link |-> None,
                  confirmed |-> 0, issued |-> 0]
    /\ call = [s \in Calls |-> NoCall]
    /\ removed = {}

-----------------------------------------------------------------------------
Stands(s, pc) == call[s].pc = pc
GoesOn(s, pc) == call' = [call EXCEPT ![s].pc = pc]
Begin(s, r) == Stands(s, "idle") /\ call' = [call EXCEPT ![s] = r]
Ends(s) == call' = [call EXCEPT ![s] = NoCall]

Live(u) == users[u].state = "live"
IdsOf(u) == {i \in ids : i[1] = u}
LoginsOf(rows) == {i[2] : i \in rows}

Proofs == <<codes, session>>

\* How many codes and sessions there are.
Made ==
    Cardinality({c \in Phones \X (1..MaxProofs) : c[2] \in DOMAIN codes[c[1]]})
      + (IF session.status = "none" THEN 0 ELSE 1)
Tables == <<users, ids, removed>>

-----------------------------------------------------------------------------
\* What a proven provider account is used for: to sign in (verifyOtp, poll,
\* Google's signIn), or to be attached to the account of the session.
Proven(s, op, l, u) ==
    [NoCall EXCEPT !.pc = IF op = "signin" THEN "find" ELSE "linkFind",
                 !.op = op, !.login = l, !.user = u]

\* requestOtp, linkPhoneRequest: the newest code is a minute old, and there
\* were not too many within the hour.
AskCode(s, ph) ==
    /\ \A i \in DOMAIN codes[ph] : i = Len(codes[ph]) => codes[ph][i].age # "fresh"
    /\ Len(codes[ph]) < MaxPerHour
    /\ Begin(s, [NoCall EXCEPT !.pc = "retire", !.login = ph])
    /\ UNCHANGED <<Tables, Proofs>>

\* Whatever is outstanding is retired, and then the new code is saved.
Retire(s) ==
    /\ Stands(s, "retire")
    /\ codes' = [codes EXCEPT ![call[s].login] =
                   [i \in DOMAIN @ |-> [@[i] EXCEPT !.consumed = TRUE]]]
    /\ GoesOn(s, "send")
    /\ UNCHANGED <<Tables, session>>

Send(s) ==
    /\ Stands(s, "send") /\ Made < MaxProofs
    /\ codes' = [codes EXCEPT ![call[s].login] =
         Append(@, [age |-> "fresh", consumed |-> FALSE, tries |-> 0, used |-> 0])]
    /\ Ends(s)
    /\ UNCHANGED <<Tables, session>>

Outstanding(ph) == {i \in DOMAIN codes[ph] : ~codes[ph][i].consumed}

\* consumeCode, of whoever signs in, links or resets a password: the newest
\* code outstanding, and whether the code sent is that one.
EnterCode(s, op, ph, u) ==
    /\ \E i \in Outstanding(ph) :
         /\ \A j \in Outstanding(ph) : j <= i
         /\ codes[ph][i].age # "expired" /\ codes[ph][i].tries < MaxAttempts
         /\ \E right \in BOOLEAN :
              Begin(s, [NoCall EXCEPT !.pc = IF right THEN "claim" ELSE "guess",
                          !.op = op, !.login = ph, !.user = u, !.code = i])
    /\ UNCHANGED <<Tables, Proofs>>

Guess(s) ==
    /\ Stands(s, "guess")
    /\ codes' = [codes EXCEPT ![call[s].login][call[s].code].tries = @ + 1]
    /\ Ends(s)
    /\ UNCHANGED <<Tables, session>>

\* Past the claim: resetPassword goes on in module Sessions.
Passed(s) ==
    IF call[s].op = "reset" THEN Ends(s)
    ELSE call' = [call EXCEPT ![s] = Proven(s, call[s].op, call[s].login, call[s].user)]

\* What the claim makes of a code.
Spent(code) == [code EXCEPT !.consumed = TRUE, !.used = @ + 1]

\* Faulty: the row is claimed by its id alone.
FaultyClaim(s) ==
    /\ Stands(s, "claim")
    /\ codes' = [codes EXCEPT ![call[s].login][call[s].code] = Spent(@)]
    /\ Passed(s)
    /\ UNCHANGED <<Tables, session>>

Claim(s) ==
    /\ Stands(s, "claim")
    /\ IF codes[call[s].login][call[s].code].consumed
       THEN Ends(s) /\ UNCHANGED codes
       ELSE codes' = [codes EXCEPT ![call[s].login][call[s].code] = Spent(@)] /\ Passed(s)
    /\ UNCHANGED <<Tables, session>>

\* RESEND_COOLDOWN_MS and OTP_TTL_MS pass; nobody asks whether a consumed code
\* has expired.
CodeAges(ph, i) ==
    /\ i \in DOMAIN codes[ph]
    /\ LET c == codes[ph][i] IN
       c.age = "fresh" \/ (c.age = "cool" /\ ~c.consumed)
    /\ codes' = [codes EXCEPT ![ph][i].age = IF @ = "fresh" THEN "cool" ELSE "expired"]
    /\ UNCHANGED <<Tables, session, call>>

-----------------------------------------------------------------------------
\* startSession, to sign in or to link Telegram to the caller's account.
StartSession(u) ==
    /\ session.status = "none" /\ Made < MaxProofs
    /\ u # None => Live(u)
    /\ session' = [session EXCEPT !.status = "PENDING", !.link = u]
    /\ UNCHANGED <<Tables, codes, call>>

\* confirmFromBot: the session is read, and saved whatever it is by then.
BotFind(s, t) ==
    /\ session.status = "PENDING"
    /\ Begin(s, [NoCall EXCEPT !.pc = IF session.late THEN "outdate" ELSE "confirm",
                             !.login = t])
    /\ UNCHANGED <<Tables, Proofs>>

Outdate(s) ==
    /\ Stands(s, "outdate")
    /\ session' = [session EXCEPT !.status = "EXPIRED"]
    /\ Ends(s)
    /\ UNCHANGED <<Tables, codes>>

Confirm(s) ==
    /\ Stands(s, "confirm")
    /\ session' = [session EXCEPT !.status = "CONFIRMED", !.tid = call[s].login,
                                  !.confirmed = @ + 1]
    /\ Ends(s)
    /\ UNCHANGED <<Tables, codes>>

\* poll, up to its claim: from here on it works with what it has read.
PollFind(s) ==
    /\ session.status = "CONFIRMED" /\ ~session.late
    /\ Begin(s, [NoCall EXCEPT !.pc = "poll", !.login = session.tid, !.user = session.link,
                   !.op = IF session.link = None THEN "signin" ELSE "link"])
    /\ UNCHANGED <<Tables, Proofs>>

PollClaim(s) ==
    /\ Stands(s, "poll")
    /\ IF session.status = "CONFIRMED"
       THEN /\ session' = [session EXCEPT !.status = "CONSUMED", !.issued = @ + 1]
            /\ Passed(s)
       ELSE Ends(s) /\ UNCHANGED session
    /\ UNCHANGED <<Tables, codes>>

SessionExpires ==
    /\ session.status \in {"PENDING", "CONFIRMED"} /\ ~session.late
    /\ session' = [session EXCEPT !.late = TRUE]
    /\ UNCHANGED <<Tables, codes, call>>

\* GoogleAuthService.signIn and link.
Google(s, op, g, u) ==
    /\ Begin(s, Proven(s, op, g, u))
    /\ UNCHANGED <<Tables, Proofs>>

-----------------------------------------------------------------------------
\* The unique indexes: uq_identity_provider, uq_identity_user_provider,
\* uq_users_phone, uq_users_email.
IdentityFree(u, l) ==
    \A i \in ids : i[2] # l /\ (i[1] = u => Provider(i[2]) # Provider(l))
ContactFree(u, l) ==
    Provider(l) \in Contacts =>
      \A v \in Users \ {u} : users[v].contact[Provider(l)] # l

\* An insert that collides with a row an open transaction is deleting waits.
Waits(u, l) ==
    \E s \in Calls : \E i \in call[s].gone :
      i[2] = l \/ (i[1] = u /\ Provider(i[2]) = Provider(l))

\* A unique violation rolls resolve's transaction back, and it is retried once.
Retry(s) ==
    call' = [call EXCEPT ![s] =
              IF @.again THEN NoCall ELSE [@ EXCEPT !.pc = "find", !.user = None, !.again = TRUE]]

SignedIn(s, u) == call' = [call EXCEPT ![s].pc = "in", ![s].user = u]

\* resolveIn (a banned user is resolved too, and refused by whoever asked):
\* a known identity, or a user with the contact detail, or neither.
ResolveFind(s) ==
    /\ Stands(s, "find")
    /\ LET l == call[s].login
           known   == {u \in Users : <<u, l>> \in ids}
           matched == {u \in Users : Live(u) /\ Provider(l) \in Contacts
                                     /\ users[u].contact[Provider(l)] = l}
       IN  \/ \E u \in known :
                IF Live(u) THEN call' = [call EXCEPT ![s].pc = "touch", ![s].user = u]
                ELSE Ends(s)
           \/ /\ known = {}
              /\ \E u \in matched : call' = [call EXCEPT ![s].pc = "attach", ![s].user = u]
           \/ known = {} /\ matched = {} /\ GoesOn(s, "create")
    /\ UNCHANGED <<Tables, Proofs>>

\* save() of the identity that was found: an UPDATE, or an INSERT when it is no
\* longer there.
Touch(s) ==
    /\ Stands(s, "touch")
    /\ LET u == call[s].user  l == call[s].login IN
       \/ <<u, l>> \in ids /\ SignedIn(s, u) /\ UNCHANGED ids
       \/ /\ <<u, l>> \notin ids /\ ~Waits(u, l)
          /\ IF IdentityFree(u, l)
             THEN ids' = ids \union {<<u, l>>} /\ SignedIn(s, u)
             ELSE Retry(s) /\ UNCHANGED ids
    /\ UNCHANGED <<users, removed, Proofs>>

Attach(s) ==
    /\ Stands(s, "attach")
    /\ LET u == call[s].user  l == call[s].login IN
       /\ ~Waits(u, l)
       /\ IF IdentityFree(u, l)
          THEN ids' = ids \union {<<u, l>>} /\ SignedIn(s, u)
          ELSE Retry(s) /\ UNCHANGED ids
    /\ UNCHANGED <<users, removed, Proofs>>

\* Faulty: the user is saved outside the transaction, which only the identity's
\* insert then leaves.
FaultyCreate(s) ==
    /\ Stands(s, "create")
    /\ LET l == call[s].login IN
       \E u \in Users :
         /\ users[u].state = "none"
         /\ users' = [users EXCEPT ![u] = [NewUser(l) EXCEPT !.contact = NoContact]]
         /\ ids' = IF IdentityFree(u, l) THEN ids \union {<<u, l>>} ELSE ids
         /\ SignedIn(s, u)
    /\ UNCHANGED <<removed, Proofs>>

Create(s) ==
    /\ Stands(s, "create")
    /\ LET l == call[s].login IN
       \E u \in Users :
         /\ users[u].state = "none" /\ ~Waits(u, l)
         /\ IF IdentityFree(u, l) /\ ContactFree(u, l)
            THEN /\ users' = [users EXCEPT ![u] = NewUser(l)]
                 /\ ids' = ids \union {<<u, l>>}
                 /\ SignedIn(s, u)
            ELSE Retry(s) /\ UNCHANGED <<users, ids>>
    /\ UNCHANGED <<removed, Proofs>>

\* The tokens are issued.
Leave(s) ==
    /\ Stands(s, "in")
    /\ Ends(s)
    /\ UNCHANGED <<Tables, Proofs>>

-----------------------------------------------------------------------------
\* link: taken by anyone, or one of this kind already: nothing to do.
LinkFind(s) ==
    /\ Stands(s, "linkFind")
    /\ IF IdentityFree(call[s].user, call[s].login) THEN GoesOn(s, "link") ELSE Ends(s)
    /\ UNCHANGED <<Tables, Proofs>>

\* The identity, and the contact detail if the account has none: findOneOrFail
\* and the indexes roll both back.
Link(s) ==
    /\ Stands(s, "link")
    /\ LET u == call[s].user  l == call[s].login  p == Provider(l)
           fills == p \in Contacts /\ users[u].contact[p] = None
       IN  /\ ~Waits(u, l)
           /\ IF /\ IdentityFree(u, l) /\ Live(u)
                 /\ fills => ContactFree(u, l)
              THEN /\ ids' = ids \union {<<u, l>>}
                   /\ users' = IF fills THEN [users EXCEPT ![u].contact[p] = l] ELSE users
              ELSE UNCHANGED <<ids, users>>
    /\ Ends(s)
    /\ UNCHANGED <<removed, Proofs>>

\* unlink: the account's identities are read, and must be more than one.
UnlinkFind(s, u, p) ==
    /\ Live(u)
    /\ Cardinality(IdsOf(u)) > 1
    /\ \E i \in IdsOf(u) : Provider(i[2]) = p
    /\ Begin(s, [NoCall EXCEPT !.pc = "unlink", !.user = u, !.provider = p])
    /\ UNCHANGED <<Tables, Proofs>>

Cleared(u, p) ==
    IF p \in Contacts THEN [users EXCEPT ![u].contact[p] = None] ELSE users

\* Faulty: the contact detail stays.
FaultyUnlink(s) ==
    /\ Stands(s, "unlink")
    /\ LET u == call[s].user  p == call[s].provider
           rows == {i \in IdsOf(u) : Provider(i[2]) = p}
       IN  ids' = ids \ rows /\ removed' = removed \union LoginsOf(rows)
    /\ Ends(s)
    /\ UNCHANGED <<users, Proofs>>

\* The rows that are there now, which nobody can put back before the contact
\* detail is gone as well; if they are gone already, nothing is locked.
Unlink(s) ==
    /\ Stands(s, "unlink")
    /\ LET u == call[s].user  p == call[s].provider
           rows == {i \in IdsOf(u) : Provider(i[2]) = p}
       IN  IF rows # {}
           THEN /\ ids' = ids \ rows /\ removed' = removed \union LoginsOf(rows)
                /\ users' = Cleared(u, p)
                /\ Ends(s)
           ELSE /\ GoesOn(s, "unlinkContact")
                /\ UNCHANGED Tables
    /\ UNCHANGED Proofs

UnlinkContact(s) ==
    /\ Stands(s, "unlinkContact")
    /\ users' = Cleared(call[s].user, call[s].provider)
    /\ Ends(s)
    /\ UNCHANGED <<ids, removed, Proofs>>

\* deleteOwnAccount's transaction: the identities there are, and at its end the
\* row itself.
DeleteIdentities(s, u) ==
    /\ Live(u)
    /\ Begin(s, [NoCall EXCEPT !.pc = "scrub", !.user = u, !.gone = IdsOf(u)])
    /\ UNCHANGED <<Tables, Proofs>>

Scrub(s) ==
    /\ Stands(s, "scrub")
    /\ users' = [users EXCEPT ![call[s].user] = [state |-> "deleted", contact |-> NoContact]]
    /\ ids' = ids \ call[s].gone
    /\ removed' = removed \union LoginsOf(call[s].gone)
    /\ Ends(s)
    /\ UNCHANGED Proofs

-----------------------------------------------------------------------------
\* The process stops: open transactions roll back.
AccountsRestart ==
    /\ call' = [s \in Calls |-> NoCall]
    /\ UNCHANGED <<Tables, Proofs>>

\* Linking is for whoever is signed in.
For(op) == IF op = "link" THEN {u \in Users : Live(u)} ELSE {None}

Comes(s) ==
    \/ \E ph \in Phones :
         \/ AskCode(s, ph)
         \/ \E op \in {"signin", "link", "reset"} : \E u \in For(op) : EnterCode(s, op, ph, u)
    \/ \E t \in Telegrams : BotFind(s, t)
    \/ PollFind(s)
    \/ \E g \in Googles, op \in {"signin", "link"} : \E u \in For(op) : Google(s, op, g, u)
    \/ \E u \in Users : DeleteIdentities(s, u) \/ \E p \in Providers : UnlinkFind(s, u, p)

Proceeds(s) ==
    \/ Retire(s) \/ Send(s) \/ Guess(s) \/ Claim(s)
    \/ Outdate(s) \/ Confirm(s) \/ PollClaim(s)
    \/ ResolveFind(s) \/ Touch(s) \/ Attach(s) \/ Create(s) \/ Leave(s)
    \/ LinkFind(s) \/ Link(s)
    \/ Unlink(s) \/ UnlinkContact(s) \/ Scrub(s)

AccountsNext ==
    \/ \E s \in Calls : Comes(s) \/ Proceeds(s)
    \/ \E u \in Users \union {None} : StartSession(u)
    \/ SessionExpires
    \/ \E ph \in Phones : \E i \in DOMAIN codes[ph] : CodeAges(ph, i)
    \/ AccountsRestart

AccountsSpec == AccountsInit /\ [][AccountsNext]_accountVars

-----------------------------------------------------------------------------
(* Properties *)

\* A code is single-use, whichever requests hold the right one, to sign in, to
\* link or to reset a password (phone-auth.service.ts:314-315); and of the polls
\* that overlap one gets to issue tokens, only another press of the bot's button
\* lets another one (telegram-auth.service.ts:107-109).
EachProofWorksOnce ==
    /\ \A ph \in Phones : \A i \in DOMAIN codes[ph] : codes[ph][i].used <= 1
    /\ session.issued <= session.confirmed

\* identity.service.ts:46-49 -- two requests signed in with one provider account
\* are signed in to one user, first-ever logins that race included, unless the
\* provider account was taken off a user meanwhile.
SameAccount ==
    \A s, t \in Calls :
      /\ Stands(s, "in") /\ Stands(t, "in")
      /\ call[s].login = call[t].login
      => \/ call[s].user = call[t].user
         \/ call[s].login \in removed

\* identity.service.ts:235-237 -- a number or an address does not outlive the
\* identity that verified it, where it would re-link the provider account at
\* the next sign-in; only an administrator's seeded number never had one.
ContactIsHeld ==
    /\ AccountsTypeOK
    /\ \A u \in Users, p \in Contacts :
         LET l == users[u].contact[p] IN
         l # None => <<u, l>> \in ids \/ l \notin removed
=============================================================================
