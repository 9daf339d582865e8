-------------------------------- MODULE Chat --------------------------------
(***************************************************************************)
(* One conversation between two people: ChatService, the part of           *)
(* ChatGateway that writes, BlocksService and the chat row of the inbox    *)
(* (UserNotificationsService.notify).  Every request is a sequence of      *)
(* statements on their own; only an insert with its conversation row, and  *)
(* a deletion with its event, are transactions.                            *)
(*                                                                         *)
(* A direct thread can be opened from both sides, one about a listing by   *)
(* its guest only: `Openers`.  Left out are the columns nothing here reads *)
(* again: the preview, the pin, a reply's target, a bid's card, presence.  *)
(***************************************************************************)
EXTENDS Integers, Sequences, FiniteSets

CONSTANTS
    Users,        \* the two participants
    Openers,      \* those who may open the thread
    Requests,     \* requests being served at once
    ClientIds,    \* ids the apps generate for their messages
    Sends,        \* bound: what the apps send, a subset of NewMessage
    MaxMessages   \* bound: messages ever stored

ASSUME ChatAssumption ==
    /\ \A u \in Users : \E v \in Users : Users \ {u} = {v}
    /\ Openers \subseteq Users
    /\ MaxMessages \in Nat

VARIABLES
    opened,    \* there is a conversations row
    messages,  \* the messages rows, in the order they were committed
    blocks,    \* user_blocks: <<blocker, blocked>>
    files,     \* per uploaded file: in use, its deletion published, or deleted
    bell,      \* who has an unread CHAT_MESSAGE row for this conversation
    req,       \* the requests
    owed       \* history: messages their recipient must hear of -- not looked at
               \* the inbox since, and the notification not lost to a fault

vars == <<opened, messages, blocks, files, bell, req, owed>>

Other(u) == CHOOSE v \in Users : v # u
Ids == 1..MaxMessages
NoClientId == "no client id"

\* A file is named by the message it was uploaded for; 0 is a text message.
\* read_at is set with READ.
MessageType ==
  {m \in
    [sender : Users, clientId : ClientIds \union {NoClientId},
     file : Ids \union {0}, forwarded : BOOLEAN,
     body : {"said", "null"}, deleted : BOOLEAN,
     status : {"SENT", "DELIVERED", "READ"}, read : BOOLEAN] :
   m.read <=> m.status = "READ"}

\* What a send is given: an upload, a text, or a copy of a message's content.
NewMessage == [clientId : ClientIds \union {NoClientId}, kind : {"text", "upload"}]
ASSUME SendsAssumption == Sends \subseteq NewMessage

Payload == NewMessage \union [clientId : {NoClientId}, kind : {"forward"}, file : Ids \union {0}]

\* `barred` is history: there has been a block ever since the request came.
Idle == [pc |-> "idle"]
ReqType ==
    [pc : {"openBlock", "find", "open", "block", "dup", "insert"}, user : Users,
     barred : BOOLEAN, dto : Payload]
    \union [pc : {"notify"}, user : Users, msg : Ids]
    \union [pc : {"deliver"}, user : Users]
    \union [pc : {"source"}, user : Users, msg : Ids, barred : BOOLEAN]
    \union [pc : {"edit"}, msg : Ids]
    \union [pc : {"delete"}, msg : Ids, file : Ids \union {0}]
    \union {Idle}

TypeOK ==
    /\ opened \in BOOLEAN
    /\ messages \in Seq(MessageType) /\ Len(messages) <= MaxMessages
    /\ blocks \subseteq {<<u, Other(u)>> : u \in Users}
    /\ files \in [Ids -> {"none", "kept", "orphaned", "deleted"}]
    /\ bell \subseteq Users
    /\ req \in [Requests -> ReqType]
    /\ owed \subseteq DOMAIN messages

Init ==
    /\ opened = FALSE /\ messages = << >>
    /\ blocks = {} /\ bell = {} /\ owed = {}
    /\ files = [i \in Ids |-> "none"]
    /\ req = [s \in Requests |-> Idle]

-----------------------------------------------------------------------------
At(s, pc) == req[s].pc = pc
Go(s, pc) == req' = [req EXCEPT ![s].pc = pc]
Refuse(s) == req' = [req EXCEPT ![s] = Idle]

\* Faulty: only a block of the sender by the recipient counts.
FaultyBlocked(u, v) == <<v, u>> \in blocks

\* betweenAny: a block in either direction.
Blocked(u, v) == <<u, v>> \in blocks \/ <<v, u>> \in blocks

\* startConversation and startDirectConversation.  Bound: once the thread is
\* there they are not called again (they would go on as sendMessage).
AskOpen(s, u, dto) ==
    /\ At(s, "idle") /\ ~opened
    /\ req' = [req EXCEPT ![s] =
                 [pc |-> "openBlock", user |-> u, barred |-> blocks # {}, dto |-> dto]]
    /\ UNCHANGED <<opened, messages, files, bell, owed, blocks>>

\* sendMessage by REST or by socket: assertParticipant passes once the thread
\* is there.
AskSend(s, u, dto) ==
    /\ At(s, "idle") /\ opened
    /\ req' = [req EXCEPT ![s] =
                 [pc |-> "block", user |-> u, barred |-> blocks # {}, dto |-> dto]]
    /\ UNCHANGED <<opened, messages, files, bell, owed, blocks>>

\* forwardMessage: whoever takes part may pass a message on.
AskForward(s, u, i) ==
    /\ At(s, "idle")
    /\ req' = [req EXCEPT ![s] =
                 [pc |-> "source", user |-> u, msg |-> i, barred |-> blocks # {}]]
    /\ UNCHANGED <<opened, messages, files, bell, owed, blocks>>

\* assertNotBlocked, when a thread is opened and before every message.
CheckBlock(s) ==
    /\ At(s, "openBlock") \/ At(s, "block")
    /\ IF Blocked(req[s].user, Other(req[s].user)) THEN Refuse(s)
       ELSE Go(s, IF At(s, "openBlock") THEN "find" ELSE "dup")
    /\ UNCHANGED <<opened, messages, files, bell, owed, blocks>>

\* findByListingAndGuest, findDirectBetween.
FindThread(s) ==
    /\ At(s, "find")
    /\ Go(s, IF opened THEN "block" ELSE "open")
    /\ UNCHANGED <<opened, messages, files, bell, owed, blocks>>

\* The insert; the loser of the race hits the unique index, and goes on in the
\* thread it finds then.
OpenThread(s) ==
    /\ At(s, "open")
    /\ opened' = TRUE
    /\ Go(s, "block")
    /\ UNCHANGED <<messages, files, bell, owed, blocks>>

\* The REST handler is done; the socket's goes on to the receipt if the
\* recipient has a socket open.
AfterSend(s) ==
    \/ Refuse(s)
    \/ req' = [req EXCEPT ![s] = [pc |-> "deliver", user |-> req[s].user]]

\* findByClientId: a repeated send is answered with the message it stored.
LookUpClientId(s) ==
    /\ At(s, "dup")
    /\ LET cid == req[s].dto.clientId IN
       IF cid # NoClientId /\ \E i \in DOMAIN messages : messages[i].clientId = cid
       THEN AfterSend(s) ELSE Go(s, "insert")
    /\ UNCHANGED <<opened, messages, files, bell, owed, blocks>>

\* The file the new message shows: its own upload, or the one it was copied with.
FileOf(dto) ==
    CASE dto.kind = "text"    -> 0
      [] dto.kind = "upload"  -> Len(messages) + 1
      [] dto.kind = "forward" -> dto.file

\* The transaction: the message and the conversation's preview.  Nobody
\* listens to the event it publishes.
InsertMessage(s) ==
    /\ At(s, "insert") /\ Len(messages) < MaxMessages
    /\ LET dto == req[s].dto
           new == Len(messages) + 1
       IN /\ messages' = Append(messages,
                 [sender |-> req[s].user, clientId |-> dto.clientId,
                  file |-> FileOf(dto), forwarded |-> dto.kind = "forward",
                  body |-> "said", deleted |-> FALSE, status |-> "SENT", read |-> FALSE])
          /\ files' = IF dto.kind = "upload" THEN [files EXCEPT ![new] = "kept"] ELSE files
          /\ owed' = owed \union {new}
          /\ req' = [req EXCEPT ![s] = [pc |-> "notify", user |-> req[s].user, msg |-> new]]
    /\ UNCHANGED <<opened, bell, blocks>>

\* Faulty: a thread with an older unread message needs no new row.
FaultyNotify(s) ==
    /\ At(s, "notify")
    /\ bell' = IF \E i \in 1..(req[s].msg - 1) :
                    messages[i].sender = req[s].user /\ ~messages[i].read
               THEN bell ELSE bell \union {Other(req[s].user)}
    /\ AfterSend(s)
    /\ UNCHANGED <<opened, messages, files, owed, blocks>>

\* notify: one upsert on the unread row of this person and this conversation.
Notify(s) ==
    /\ At(s, "notify")
    /\ bell' = bell \union {Other(req[s].user)}
    /\ AfterSend(s)
    /\ UNCHANGED <<opened, messages, files, owed, blocks>>

\* notify swallows its own errors.
NotifyFails(s) ==
    /\ At(s, "notify")
    /\ owed' = owed \ {req[s].msg}
    /\ AfterSend(s)
    /\ UNCHANGED <<opened, messages, files, bell, blocks>>

-----------------------------------------------------------------------------
Received(u) == {i \in DOMAIN messages : messages[i].sender # u}

\* Faulty: what was read already is delivered again.
FaultyMarkDelivered(s) ==
    /\ At(s, "deliver")
    /\ messages' = [i \in DOMAIN messages |->
                      IF i \in Received(Other(req[s].user))
                      THEN [messages[i] EXCEPT !.status = "DELIVERED"] ELSE messages[i]]
    /\ Refuse(s)
    /\ UNCHANGED <<opened, files, bell, owed, blocks>>

\* markDelivered, on the sender's request: everything the recipient was sent.
MarkDelivered(s) ==
    /\ At(s, "deliver")
    /\ messages' = [i \in DOMAIN messages |->
                      IF i \in Received(Other(req[s].user)) /\ messages[i].status = "SENT"
                      THEN [messages[i] EXCEPT !.status = "DELIVERED"] ELSE messages[i]]
    /\ Refuse(s)
    /\ UNCHANGED <<opened, files, bell, owed, blocks>>

\* markRead: one statement; its condition is read_at, not the status.
MarkRead(u) ==
    /\ opened
    /\ messages' = [i \in DOMAIN messages |->
                      IF i \in Received(u) /\ ~messages[i].read
                      THEN [messages[i] EXCEPT !.status = "READ", !.read = TRUE]
                      ELSE messages[i]]
    /\ UNCHANGED <<opened, files, bell, req, owed, blocks>>

\* readForwardable: either participant may copy what was not deleted.  The copy
\* keeps the URL of the file.
ReadForwardable(s) ==
    /\ At(s, "source")
    /\ LET m == messages[req[s].msg] IN
       IF m.deleted THEN Refuse(s)
       ELSE req' = [req EXCEPT ![s] =
                      [pc |-> "block", user |-> req[s].user, barred |-> req[s].barred,
                       dto |-> [clientId |-> NoClientId, kind |-> "forward", file |-> m.file]]]
    /\ UNCHANGED <<opened, messages, files, bell, owed, blocks>>

\* editMessage: the checks are on the copy it read, the update is by id alone.
AskEdit(s, u, i) ==
    /\ At(s, "idle")
    /\ messages[i].sender = u /\ ~messages[i].deleted /\ messages[i].file = 0
    /\ req' = [req EXCEPT ![s] = [pc |-> "edit", msg |-> i]]
    /\ UNCHANGED <<opened, messages, files, bell, owed, blocks>>

EditMessage(s) ==
    /\ At(s, "edit")
    /\ messages' = [messages EXCEPT ![req[s].msg].body = "said"]
    /\ Refuse(s)
    /\ UNCHANGED <<opened, files, bell, owed, blocks>>

AskDelete(s, u, i) ==
    /\ At(s, "idle")
    /\ messages[i].sender = u /\ ~messages[i].deleted
    /\ req' = [req EXCEPT ![s] = [pc |-> "delete", msg |-> i, file |-> messages[i].file]]
    /\ UNCHANGED <<opened, messages, files, bell, owed, blocks>>

\* deleteMessage's transaction: the row's content is cleared, by id alone, and
\* the file it had in the copy is to be deleted.
DeleteMessage(s) ==
    /\ At(s, "delete")
    /\ messages' = [messages EXCEPT ![req[s].msg].deleted = TRUE,
                                    ![req[s].msg].body = "null", ![req[s].msg].file = 0]
    /\ files' = [f \in Ids |-> IF f = req[s].file THEN "orphaned" ELSE files[f]]
    /\ Refuse(s)
    /\ UNCHANGED <<opened, bell, owed, blocks>>

\* handleOrphaned: the listener deletes the file from the store.
DeleteFile(f) ==
    /\ files[f] = "orphaned"
    /\ files' = [files EXCEPT ![f] = "deleted"]
    /\ UNCHANGED <<opened, messages, bell, req, owed, blocks>>

-----------------------------------------------------------------------------
Block(u) ==
    /\ blocks' = blocks \union {<<u, Other(u)>>}
    /\ UNCHANGED <<opened, messages, files, bell, req, owed>>

Barred(r, still) == IF "barred" \in DOMAIN r THEN [r EXCEPT !.barred = @ /\ still] ELSE r

Unblock(u) ==
    /\ blocks' = blocks \ {<<u, Other(u)>>}
    /\ req' = [s \in Requests |-> Barred(req[s], blocks' # {})]
    /\ UNCHANGED <<opened, messages, files, bell, owed>>

\* UserNotificationsService.markRead: the inbox is opened.
ReadInbox(u) ==
    /\ bell' = bell \ {u}
    /\ owed' = {i \in owed : messages[i].sender = u}
    /\ UNCHANGED <<opened, messages, files, blocks, req>>

\* The process restarts: its requests are gone, also those that had a row to
\* write.
Restart ==
    /\ req' = [s \in Requests |-> Idle]
    /\ owed' = owed \ {req[s].msg : s \in {t \in Requests : At(t, "notify")}}
    /\ UNCHANGED <<opened, messages, files, bell, blocks>>

\* Bound: no send begins that MaxMessages may leave no row for.
Room == Len(messages) + Cardinality({s \in Requests : "barred" \in DOMAIN req[s]})
          < MaxMessages

Arrive(s) ==
    \/ \E u \in Openers, dto \in Sends : Room /\ AskOpen(s, u, dto)
    \/ \E u \in Users, dto \in Sends : Room /\ AskSend(s, u, dto)
    \/ \E u \in Users, i \in DOMAIN messages :
         (Room /\ AskForward(s, u, i)) \/ AskEdit(s, u, i) \/ AskDelete(s, u, i)

Continue(s) ==
    \/ CheckBlock(s) \/ FindThread(s) \/ OpenThread(s) \/ LookUpClientId(s)
    \/ InsertMessage(s) \/ Notify(s) \/ NotifyFails(s) \/ MarkDelivered(s)
    \/ ReadForwardable(s) \/ EditMessage(s) \/ DeleteMessage(s)

Next ==
    \/ \E s \in Requests : Arrive(s) \/ Continue(s)
    \/ \E u \in Users :
         MarkRead(u) \/ Block(u) \/ Unblock(u) \/ ReadInbox(u)
    \/ \E f \in Ids : DeleteFile(f)
    \/ Restart

Spec == Init /\ [][Next]_vars

-----------------------------------------------------------------------------
(* Properties *)

\* The thread implements the log its participants were promised: however
\* receipts, edits and deletions overlap, no message is lost or moved, receipts
\* only advance, and a deletion is the sender's and final.
EntryOf(m) == [sender |-> m.sender, receipt |-> m.status, gone |-> m.deleted]
Thread == [i \in DOMAIN messages |-> EntryOf(messages[i])]

Log == INSTANCE ThreadLog WITH Writers <- Users, log <- Thread

ThreadIsALog == Log!LogSpec

\* chat.service.ts:271-273, blocks.service.ts:90-94 -- a block in either
\* direction stops the next message: a request that came while a block stood,
\* and is served while it stands, stores nothing, whichever way it took to the
\* insert.  (One that was past its check when the block landed does.)
BlockStopsTheNext ==
    [][\A s \in Requests :
         At(s, "insert") /\ messages' # messages /\ req'[s] # req[s] => ~req[s].barred]_vars

\* The bell misses nobody: whoever was sent a message since they last looked at
\* the inbox has an unread row, or is about to get it, although fifty messages
\* share one row and the inbox may be read between a message and its row.
BellRings ==
    /\ TypeOK
    /\ \A i \in owed :
         \/ Other(messages[i].sender) \in bell
         \/ \E s \in Requests : At(s, "notify") /\ req[s].msg = i

\* chat.service.ts:355-357 -- "A forward has to keep working when the original
\* is deleted".
ForwardKeepsItsFile ==
    \A i \in DOMAIN messages :
      messages[i].forwarded /\ messages[i].file # 0 => files[messages[i].file] # "deleted"
=============================================================================
