-------------------------------- MODULE Inbox --------------------------------
(***************************************************************************)
(* Telling somebody (UserNotificationsService) and the copy of it that     *)
(* goes to a lock screen (ExpoPushService).  A row is written first; the   *)
(* push about it is not waited for, reads the devices of whom it is for in *)
(* a statement of its own, and may find, when Expo has answered, devices   *)
(* to forget.  Meanwhile phones change hands, and are switched off and on. *)
(*                                                                         *)
(* Messages of a chat, which fold into one row a thread, are in Chat.      *)
(* Expo and the app on the phone are not under src/: the app registers     *)
(* while somebody is signed in, and takes its device back on sign-out with *)
(* a request that may come late or not at all.                             *)
(***************************************************************************)
EXTENDS Requests, Sequences

CONSTANTS Handsets,    \* phones, by their Expo token
          MaxTold,     \* bound: rows ever written
          MaxHands     \* bound: sign-ins and switchings of a phone

ASSUME InboxAssumption == IsFiniteSet(Users) /\ MaxTold \in Nat

VARIABLES inbox,       \* user_notifications: id -> [to, by, kind, read, looked]
          toldMade,    \* ids given
          tellCalls,   \* the requests in flight
          tokens,      \* push_tokens, rows <<token, user>>
          holder,      \* external: who is signed in on a phone
          leaving,     \* external: sign-outs on their way
          muted,       \* external: phones where push is turned off
          turns,       \* changes of the phones so far
          pointed,     \* ghost: phone -> who registered it last
          hands,       \* ghost: phone -> how many times that became another
          shown        \* ghost: what reached a screen

phoneVars == <<tokens, holder, leaving, muted, turns, pointed, hands>>
inboxVars == <<inbox, toldMade, tellCalls, shown, phoneVars>>

Rung == {"bid", "reel"}         \* kinds PUSH_TEXT has words for
Quietly == {"like", "lapsed"}   \* and those it leaves to the inbox

InboxInit ==
    /\ inbox = [k \in {} |-> None] /\ toldMade = 0
    /\ tellCalls = [r \in Requests |-> Idle]
    /\ tokens = {} /\ leaving = {} /\ muted = {}
    /\ holder = [h \in Handsets |-> None]
    /\ hands = [h \in Handsets |-> 0] /\ turns = 0
    /\ pointed = [h \in Handsets |-> None]
    /\ shown = {}

TellGoes(r, call) == tellCalls' = [tellCalls EXCEPT ![r] = call]

(***************************************************************************)
(* notify, notifyEach, notifyMany                                          *)
(***************************************************************************)
(* The rows as save() returns them, in the order they were given: each     *)
(* push takes the id at its own index.                                     *)
Addressed(rows) == [i \in DOMAIN rows |-> [to |-> rows[i].to, id |-> toldMade + i]]

WriteRows(r, kind, rows, looked) ==
    /\ toldMade + Len(rows) <= MaxTold
    /\ inbox' = [k \in DOMAIN inbox \cup {toldMade + i : i \in DOMAIN rows} |->
                   IF k \in DOMAIN inbox THEN inbox[k]
                   ELSE [to |-> rows[k - toldMade].to, by |-> rows[k - toldMade].by,
                         kind |-> kind, read |-> FALSE, looked |-> looked]]
    /\ toldMade' = toldMade + Len(rows)
    /\ TellGoes(r, IF rows = << >> \/ kind \in Quietly THEN Idle
                   ELSE [at |-> "devices", items |-> Addressed(rows)])
    /\ UNCHANGED <<shown, phoneVars>>

(* One person, of anything but a like. *)
Notify(r, kind, to, by) ==
    /\ tellCalls[r] = Idle
    /\ to # by
    /\ WriteRows(r, kind, <<[to |-> to, by |-> by]>>, toldMade)

(* A sweep that owes each of two people, or one person twice, a row of     *)
(* their own; nobody in particular ends a bid, so none is left out.        *)
Bidders == {<<[to |-> t, by |-> None], [to |-> u, by |-> None]>> : t, u \in Users}

NotifyEach(r, kind, rows) ==
    /\ tellCalls[r] = Idle
    /\ rows # << >>
    /\ WriteRows(r, kind, rows, toldMade)

(* The followers who are told of a reel: each once, but never its author   *)
(* about themselves, in any order.                                         *)
FanOut(people, by) ==
    {[i \in DOMAIN who |-> [to |-> who[i], by |-> by]] :
       who \in {f \in [1 .. Cardinality(people \ {by}) -> people \ {by}] :
                  {f[i] : i \in DOMAIN f} = people \ {by}}}

NotifyMany(r, kind, people, by) ==
    \E rows \in FanOut(people, by) : NotifyEach(r, kind, rows)

(* A like: one that stands unread from the same person is not written      *)
(* again, when it is there to be found.                                    *)
Alike(row, like) ==
    row.kind = "like" /\ row.to = like.to /\ row.by = like.by /\ ~row.read

FindLike(r, to, by) ==
    LET like == [to |-> to, by |-> by] IN
    /\ tellCalls[r] = Idle
    /\ to # by
    /\ {k \in DOMAIN inbox : Alike(inbox[k], like)} = {}
    /\ TellGoes(r, [at |-> "like", like |-> like, looked |-> toldMade])
    /\ UNCHANGED <<inbox, toldMade, shown, phoneVars>>

WriteLike(r) ==
    LET call == tellCalls[r] IN
    /\ call.at = "like"
    /\ WriteRows(r, "like", <<call.like>>, call.looked)

(* markRead, of one or of all *)
MarkRead(u, ids) ==
    LET mine == {k \in DOMAIN inbox : inbox[k].to = u /\ ~inbox[k].read /\ k \in ids} IN
    /\ mine # {}
    /\ inbox' = [k \in DOMAIN inbox |->
                   IF k \in mine THEN [inbox[k] EXCEPT !.read = TRUE] ELSE inbox[k]]
    /\ UNCHANGED <<toldMade, tellCalls, shown, phoneVars>>

(***************************************************************************)
(* sendToUsers, sendEach and sendBatch                                     *)
(***************************************************************************)
TokensOf(u) == {row \in tokens : row[2] = u}

(* Each of the items to each device of its person. *)
Letters(items) ==
    UNION {{[phone |-> row[1], to |-> items[i].to, id |-> items[i].id,
             hand |-> hands[row[1]]] : row \in TokensOf(items[i].to)}
           : i \in DOMAIN items}

ReadDevices(r) ==
    LET call == tellCalls[r] IN
    /\ call.at = "devices"
    /\ TellGoes(r, IF Letters(call.items) = {} THEN Idle
                   ELSE [at |-> "post", letters |-> Letters(call.items)])
    /\ UNCHANGED <<inbox, toldMade, shown, phoneVars>>

(* Expo shows what it can, and answers for each which device is gone. *)
Post(r) ==
    LET call == tellCalls[r]
        dead == {m.phone : m \in call.letters} \cap muted
    IN  /\ call.at = "post"
        /\ shown' = shown \cup
             {[to |-> m.to, id |-> m.id, stray |-> pointed[m.phone] # m.to,
               moved |-> hands[m.phone] > m.hand]
                : m \in {n \in call.letters : n.phone \notin muted}}
        /\ TellGoes(r, IF dead = {} THEN Idle ELSE [at |-> "forget", dead |-> dead])
        /\ UNCHANGED <<inbox, toldMade, phoneVars>>

(* Expo cannot be reached or refuses: nothing is tried again. *)
PostFails(r) ==
    /\ tellCalls[r].at = "post"
    /\ TellGoes(r, Idle)
    /\ UNCHANGED <<inbox, toldMade, shown, phoneVars>>

ForgetDead(r) ==
    LET call == tellCalls[r] IN
    /\ call.at = "forget"
    /\ tokens' = {row \in tokens : row[1] \notin call.dead}
    /\ TellGoes(r, Idle)
    /\ UNCHANGED <<inbox, toldMade, shown, holder, leaving, muted, turns, pointed, hands>>

(***************************************************************************)
(* register and unregister                                                 *)
(***************************************************************************)
PhoneOnly == UNCHANGED <<inbox, toldMade, tellCalls, shown>>

\* Mutant: the phone is registered once more beside the old row.
FaultyPointing(h, u) == tokens \cup {<<h, u>>}

(* ON CONFLICT (token) DO UPDATE: the row moves to whoever signs in. *)
Pointing(h, u) == {row \in tokens : row[1] # h} \cup {<<h, u>>}

Register(h) ==
    /\ holder[h] # None
    /\ <<h, holder[h]>> \notin tokens
    /\ tokens' = Pointing(h, holder[h])
    /\ pointed' = [pointed EXCEPT ![h] = holder[h]]
    /\ hands' = [hands EXCEPT ![h] = IF pointed[h] = holder[h] THEN @ ELSE @ + 1]
    /\ PhoneOnly /\ UNCHANGED <<holder, leaving, muted, turns>>

(* By the token alone, whoever holds the phone by then. *)
Unregister(h) ==
    /\ h \in leaving
    /\ leaving' = leaving \ {h}
    /\ \/ tokens' = {row \in tokens : row[1] # h}
       \/ tokens' = tokens   \* the request was lost
    /\ PhoneOnly /\ UNCHANGED <<holder, muted, turns, pointed, hands>>

Turn == turns < MaxHands /\ turns' = turns + 1 /\ PhoneOnly

SignIn(h, u) ==
    /\ Turn
    /\ holder[h] = None
    /\ holder' = [holder EXCEPT ![h] = u]
    /\ UNCHANGED <<tokens, leaving, muted, pointed, hands>>

SignOut(h) ==
    /\ Turn
    /\ holder[h] # None
    /\ holder' = [holder EXCEPT ![h] = None]
    /\ leaving' = leaving \cup {h}
    /\ UNCHANGED <<tokens, muted, pointed, hands>>

SwitchPush(h) ==
    /\ Turn
    /\ muted' = IF h \in muted THEN muted \ {h} ELSE muted \cup {h}
    /\ UNCHANGED <<tokens, holder, leaving, pointed, hands>>

InboxRestart ==
    /\ \E r \in Requests : tellCalls[r] # Idle
    /\ tellCalls' = [r \in Requests |-> Idle]
    /\ UNCHANGED <<inbox, toldMade, shown, phoneVars>>

InboxNext ==
    \/ \E r \in Requests :
          \/ \E to, by \in Users : Notify(r, "bid", to, by) \/ FindLike(r, to, by)
          \/ \E kind \in {"bid", "lapsed"}, rows \in Bidders : NotifyEach(r, kind, rows)
          \/ \E by \in Users, people \in SUBSET Users : NotifyMany(r, "reel", people, by)
          \/ WriteLike(r) \/ ReadDevices(r) \/ Post(r) \/ PostFails(r) \/ ForgetDead(r)
    \/ \E u \in Users : \/ MarkRead(u, DOMAIN inbox)
                        \/ \E k \in DOMAIN inbox : MarkRead(u, {k})
    \/ \E h \in Handsets : \/ Register(h) \/ Unregister(h) \/ SignOut(h) \/ SwitchPush(h)
                           \/ \E u \in Users : SignIn(h, u)
    \/ InboxRestart

InboxSpec == InboxInit /\ [][InboxNext]_inboxVars

-----------------------------------------------------------------------------
InboxTypeOK ==
    /\ \A k \in DOMAIN inbox : /\ k \in 1 .. toldMade
                               /\ inbox[k].to \in Users /\ inbox[k].by \in Users \cup {None}
                               /\ inbox[k].kind \in Rung \cup Quietly
    /\ toldMade \in 0 .. MaxTold
    /\ tokens \subseteq Handsets \X Users
    /\ holder \in [Handsets -> Users \cup {None}]
    /\ leaving \subseteq Handsets /\ muted \subseteq Handsets

(* A push opens the row of the person it was meant for, which is there; it *)
(* lights up a screen that was made somebody else's only when the phone    *)
(* changed hands while the push was on its way; a device is reached for    *)
(* one person, the last who registered it; and a like stands twice only    *)
(* when the second was looked up before the first was written.             *)
(* (user-notifications.service.ts:95-341, expo-push.service.ts:57-210)     *)
PushesFindTheirReader ==
    /\ \A s \in shown :
          /\ s.id \in DOMAIN inbox /\ inbox[s.id].to = s.to
          /\ s.stray => s.moved
    /\ \A row \in tokens : row[2] = pointed[row[1]]
    /\ \A k, l \in DOMAIN inbox :
          k < l /\ Alike(inbox[k], inbox[l]) /\ Alike(inbox[l], inbox[k])
             => inbox[l].looked < k
=============================================================================
