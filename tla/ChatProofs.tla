----------------------------- MODULE ChatProofs -----------------------------
(***************************************************************************)
(* What holds of Chat for any number of requests, client ids and messages: *)
(* a conversation stays well formed, the bell misses nobody, a block stops *)
(* the next message, and the thread implements the log ThreadLog promises. *)
(***************************************************************************)
EXTENDS Chat, SequenceTheorems, TLAPS

-----------------------------------------------------------------------------
(* The inductive invariant. *)

\* A request about a message is about one that is there, and a notification
\* is to be sent by the message's sender.  One that is not past its check and
\* has been barred ever since it came finds a block; one that is past it has
\* not been barred all the time.
Sound(r, msgs, blks) ==
    /\ r.pc \in {"notify", "source", "edit", "delete"} => r.msg \in DOMAIN msgs
    /\ r.pc = "notify" => msgs[r.msg].sender = r.user
    /\ r.pc \in {"openBlock", "block", "source"} /\ r.barred => blks # {}
    /\ r.pc \in {"find", "open", "dup", "insert"} => ~r.barred

Rung(i) ==
    \/ Other(messages[i].sender) \in bell
    \/ \E s \in Requests : At(s, "notify") /\ req[s].msg = i

Inv ==
    /\ TypeOK
    /\ \A i \in owed : Rung(i)
    /\ \A s \in Requests : Sound(req[s], messages, blocks)

\* The two participants.
LEMMA OtherIsUser ==
    ASSUME NEW u \in Users
    PROVE  /\ Other(u) \in Users /\ Other(u) # u
           /\ Other(Other(u)) = u
           /\ \A v \in Users : v = u \/ v = Other(u)
<1>1. \A x \in Users : Other(x) \in Users /\ Users \ {x} = {Other(x)}
  <2> SUFFICES ASSUME NEW x \in Users
               PROVE  Other(x) \in Users /\ Users \ {x} = {Other(x)}
    OBVIOUS
  <2>1. PICK v \in Users : Users \ {x} = {v}
    BY ChatAssumption
  <2>2. \E y \in Users : y # x
    BY <2>1
  <2>3. Other(x) \in Users /\ Other(x) # x
    BY <2>2 DEF Other
  <2> QED
    BY <2>1, <2>3
<1> QED
  BY <1>1

\* Whoever is between the two is stopped by a block in either direction.
LEMMA BlockedBetween ==
    ASSUME TypeOK, NEW u \in Users, blocks # {}
    PROVE  Blocked(u, Other(u))
<1>1. PICK b \in blocks : TRUE
  OBVIOUS
<1>2. PICK v \in Users : b = <<v, Other(v)>>
  BY <1>1 DEF TypeOK
<1>3. v = u \/ v = Other(u)
  BY OtherIsUser
<1>4. Other(Other(u)) = u
  BY OtherIsUser
<1> QED
  BY <1>1, <1>2, <1>3, <1>4 DEF Blocked

-----------------------------------------------------------------------------
(* Requests. *)

Sending == {"openBlock", "find", "open", "block", "dup", "insert"}

LEMMA Fields ==
    ASSUME NEW r \in ReqType
    PROVE  /\ r.pc \in Sending =>
                /\ r.user \in Users /\ r.barred \in BOOLEAN /\ r.dto \in Payload
                /\ r = [pc |-> r.pc, user |-> r.user, barred |-> r.barred, dto |-> r.dto]
           /\ r.pc = "notify" => r.user \in Users /\ r.msg \in Ids
           /\ r.pc = "deliver" => r.user \in Users
           /\ r.pc = "source" =>
                /\ r.user \in Users /\ r.msg \in Ids /\ r.barred \in BOOLEAN
                /\ r = [pc |-> "source", user |-> r.user, msg |-> r.msg,
                        barred |-> r.barred]
           /\ r.pc = "edit" => r.msg \in Ids
           /\ r.pc = "delete" => r.msg \in Ids /\ r.file \in Ids \union {0}
BY DEF ReqType, Sending, Idle

LEMMA SendingType ==
    ASSUME NEW pc \in Sending, NEW u \in Users, NEW b \in BOOLEAN, NEW dto \in Payload
    PROVE  [pc |-> pc, user |-> u, barred |-> b, dto |-> dto] \in ReqType
BY DEF ReqType, Sending

LEMMA IdleSound == \A msgs, blks : Idle \in ReqType /\ Sound(Idle, msgs, blks)
BY DEF ReqType, Idle, Sound

\* A request that goes on to another step of sending.
LEMMA GoType ==
    ASSUME NEW r \in ReqType, r.pc \in Sending, NEW pc \in Sending,
           NEW n, n = [r EXCEPT !.pc = pc]
    PROVE  n \in ReqType /\ n.pc = pc /\ n.user = r.user /\ n.barred = r.barred
<1>1. PICK from \in Sending, u \in Users, b \in BOOLEAN, dto \in Payload :
        r = [pc |-> from, user |-> u, barred |-> b, dto |-> dto]
  BY Fields
<1>2. n = [pc |-> pc, user |-> u, barred |-> b, dto |-> dto]
  BY <1>1
<1> QED
  BY <1>1, <1>2, SendingType

\* Messages are added and changed, never moved, and keep their sender.
Grows(old, new) ==
    \A i \in DOMAIN old : i \in DOMAIN new /\ new[i].sender = old[i].sender

LEMMA SoundKept ==
    ASSUME NEW r, NEW old, NEW new, NEW b, NEW c, Sound(r, old, b),
           Grows(old, new), b # {} => c # {}
    PROVE  Sound(r, new, c)
BY DEF Sound, Grows

\* Steps that make nobody owe the bell anything more, and take no block away.
LEMMA Keeps ==
    ASSUME Inv, TypeOK', Grows(messages, messages'), blocks # {} => blocks' # {},
           owed' \subseteq owed, bell \subseteq bell',
           \A t \in Requests :
             \/ req'[t] = req[t]
             \/ /\ Sound(req'[t], messages', blocks')
                /\ \/ ~At(t, "notify") \/ req[t].msg \notin owed'
                   \/ Other(req[t].user) \in bell'
    PROVE  Inv'
<1>1. ASSUME NEW t \in Requests PROVE Sound(req'[t], messages', blocks')
  BY SoundKept DEF Inv
<1>2. ASSUME NEW i \in owed' PROVE Rung(i)'
  <2>1. i \in owed /\ Rung(i) /\ i \in DOMAIN messages
    BY <1>2 DEF Inv, TypeOK
  <2>2. messages'[i].sender = messages[i].sender
    BY <2>1 DEF Grows
  <2>3. CASE Other(messages[i].sender) \in bell
    BY <2>2, <2>3 DEF Rung
  <2>4. CASE \E s \in Requests : At(s, "notify") /\ req[s].msg = i
    <3>1. PICK s \in Requests : At(s, "notify") /\ req[s].msg = i
      BY <2>4
    <3>2. CASE req'[s] = req[s]
      <4>1. At(s, "notify")' /\ req'[s].msg = i
        BY <3>1, <3>2 DEF At
      <4> QED
        BY <4>1 DEF Rung
    <3>3. CASE Other(req[s].user) \in bell'
      <4>1. messages[i].sender = req[s].user
        BY <3>1 DEF Inv, Sound, At
      <4> QED
        BY <2>2, <3>3, <4>1 DEF Rung
    <3> QED
      BY <1>2, <3>1, <3>2, <3>3
  <2> QED
    BY <2>1, <2>3, <2>4 DEF Rung
<1> QED
  BY <1>1, <1>2 DEF Inv

-----------------------------------------------------------------------------
(* The steps. *)

\* A request takes a step that touches nothing else, and is not one that owed
\* the bell a row.
LEMMA QuietInv ==
    ASSUME Inv, NEW s \in Requests, ~At(s, "notify"), NEW n \in ReqType,
           Sound(n, messages, blocks), req' = [req EXCEPT ![s] = n],
           opened' \in BOOLEAN, UNCHANGED <<messages, files, bell, owed, blocks>>
    PROVE  Inv'
<1>1. TypeOK'
  BY DEF Inv, TypeOK
<1>2. Grows(messages, messages')
  BY DEF Grows
<1>3. ASSUME NEW t \in Requests
      PROVE  req'[t] = req[t] \/ (Sound(req'[t], messages', blocks') /\ ~At(t, "notify"))
  BY DEF Inv, TypeOK
<1> QED
  BY <1>1, <1>2, <1>3, Keeps

LEMMA RefuseInv ==
    ASSUME Inv, NEW s \in Requests, ~At(s, "notify"), Refuse(s),
           UNCHANGED <<opened, messages, files, bell, owed, blocks>>
    PROVE  Inv'
<1>1. req' = [req EXCEPT ![s] = Idle] /\ opened' \in BOOLEAN
  BY DEF Refuse, Inv, TypeOK
<1> QED
  BY <1>1, IdleSound, QuietInv

LEMMA GoInv ==
    ASSUME Inv, NEW s \in Requests, req[s].pc \in Sending, NEW pc \in Sending,
           pc \in {"find", "open", "dup", "insert"} => ~req[s].barred,
           pc \in {"openBlock", "block"} => (req[s].barred => blocks # {}),
           Go(s, pc), opened' \in BOOLEAN,
           UNCHANGED <<messages, files, bell, owed, blocks>>
    PROVE  Inv'
<1> DEFINE n == [req[s] EXCEPT !.pc = pc]
<1>1. req[s] \in ReqType
  BY DEF Inv, TypeOK
<1>2. n \in ReqType /\ n.pc = pc /\ n.user = req[s].user /\ n.barred = req[s].barred
  BY <1>1, GoType
<1>3. req' = [req EXCEPT ![s] = n]
  BY DEF Go
<1> HIDE DEF n
<1>4. Sound(n, messages, blocks)
  BY <1>2 DEF Sound, Sending
<1>5. ~At(s, "notify")
  BY DEF At, Sending
<1> QED
  BY <1>2, <1>3, <1>4, <1>5, QuietInv

\* A request comes.
LEMMA AskSendInv ==
    ASSUME Inv, NEW s \in Requests, NEW u \in Users, NEW dto \in Sends,
           AskOpen(s, u, dto) \/ AskSend(s, u, dto)
    PROVE  Inv'
<1>1. PICK pc \in {"openBlock", "block"} :
        /\ At(s, "idle") /\ UNCHANGED <<opened, messages, files, bell, owed, blocks>>
        /\ req' = [req EXCEPT ![s] =
                     [pc |-> pc, user |-> u, barred |-> blocks # {}, dto |-> dto]]
  BY DEF AskOpen, AskSend
<1> DEFINE n == [pc |-> pc, user |-> u, barred |-> blocks # {}, dto |-> dto]
<1>2. dto \in Payload
  BY SendsAssumption DEF Payload
<1>3. n \in ReqType
  BY <1>2, SendingType DEF Sending
<1>4. Sound(n, messages, blocks)
  BY DEF Sound
<1>5. ~At(s, "notify") /\ opened' \in BOOLEAN
  BY <1>1 DEF At, Inv, TypeOK
<1> HIDE DEF n
<1>6. req' = [req EXCEPT ![s] = n]
  BY <1>1 DEF n
<1> QED
  BY <1>1, <1>3, <1>4, <1>5, <1>6, QuietInv

LEMMA AskForwardInv ==
    ASSUME Inv, NEW s \in Requests, NEW u \in Users, NEW i \in DOMAIN messages,
           AskForward(s, u, i)
    PROVE  Inv'
<1> DEFINE n == [pc |-> "source", user |-> u, msg |-> i, barred |-> blocks # {}]
<1>1. /\ req' = [req EXCEPT ![s] = n] /\ At(s, "idle")
      /\ UNCHANGED <<opened, messages, files, bell, owed, blocks>>
  BY DEF AskForward
<1>2. i \in Ids
  BY ChatAssumption DEF Inv, TypeOK, Ids
<1>3. n \in ReqType /\ Sound(n, messages, blocks)
  BY <1>2 DEF ReqType, Sound
<1>4. ~At(s, "notify") /\ opened' \in BOOLEAN
  BY <1>1 DEF At, Inv, TypeOK
<1> HIDE DEF n
<1> QED
  BY <1>1, <1>3, <1>4, QuietInv

LEMMA AskEditInv ==
    ASSUME Inv, NEW s \in Requests, NEW u \in Users, NEW i \in DOMAIN messages,
           AskEdit(s, u, i)
    PROVE  Inv'
<1> DEFINE n == [pc |-> "edit", msg |-> i]
<1>1. /\ req' = [req EXCEPT ![s] = n] /\ At(s, "idle")
      /\ UNCHANGED <<opened, messages, files, bell, owed, blocks>>
  BY DEF AskEdit
<1>2. i \in Ids
  BY ChatAssumption DEF Inv, TypeOK, Ids
<1>3. n \in ReqType /\ Sound(n, messages, blocks)
  BY <1>2 DEF ReqType, Sound
<1>4. ~At(s, "notify") /\ opened' \in BOOLEAN
  BY <1>1 DEF At, Inv, TypeOK
<1> HIDE DEF n
<1> QED
  BY <1>1, <1>3, <1>4, QuietInv

LEMMA MessageFields ==
    ASSUME TypeOK, NEW i \in DOMAIN messages
    PROVE  /\ messages[i] \in MessageType /\ i \in Ids
           /\ messages[i].sender \in Users /\ messages[i].file \in Ids \union {0}
           /\ messages[i].status \in {"SENT", "DELIVERED", "READ"}
           /\ messages[i].read \in BOOLEAN
           /\ messages[i].read <=> messages[i].status = "READ"
BY ChatAssumption DEF TypeOK, Ids, MessageType

LEMMA AskDeleteInv ==
    ASSUME Inv, NEW s \in Requests, NEW u \in Users, NEW i \in DOMAIN messages,
           AskDelete(s, u, i)
    PROVE  Inv'
<1> DEFINE n == [pc |-> "delete", msg |-> i, file |-> messages[i].file]
<1>1. /\ req' = [req EXCEPT ![s] = n] /\ At(s, "idle")
      /\ UNCHANGED <<opened, messages, files, bell, owed, blocks>>
  BY DEF AskDelete
<1>2. i \in Ids /\ messages[i].file \in Ids \union {0}
  BY MessageFields DEF Inv
<1>3. n \in ReqType /\ Sound(n, messages, blocks)
  BY <1>2 DEF ReqType, Sound
<1>4. ~At(s, "notify") /\ opened' \in BOOLEAN
  BY <1>1 DEF At, Inv, TypeOK
<1> HIDE DEF n
<1> QED
  BY <1>1, <1>3, <1>4, QuietInv

\* A request that has been barred ever since it came stops here.
LEMMA CheckBlockInv ==
    ASSUME Inv, NEW s \in Requests, CheckBlock(s)
    PROVE  Inv'
<1>1. /\ req[s].pc \in {"openBlock", "block"} /\ ~At(s, "notify")
      /\ UNCHANGED <<opened, messages, files, bell, owed, blocks>>
      /\ opened' \in BOOLEAN
  BY DEF CheckBlock, At, Inv, TypeOK
<1>2. req[s] \in ReqType /\ req[s].user \in Users /\ (req[s].barred => blocks # {})
  BY <1>1, Fields DEF Inv, TypeOK, Sending, Sound
<1>3. CASE Refuse(s)
  BY <1>1, <1>3, RefuseInv
<1>4. CASE ~Blocked(req[s].user, Other(req[s].user))
  <2>1. ~req[s].barred
    BY <1>2, <1>4, BlockedBetween DEF Inv
  <2>2. Go(s, "find") \/ Go(s, "dup")
    BY <1>4 DEF CheckBlock
  <2> QED
    BY <1>1, <2>1, <2>2, GoInv DEF Sending
<1> QED
  BY <1>3, <1>4 DEF CheckBlock

LEMMA FindThreadInv ==
    ASSUME Inv, NEW s \in Requests, FindThread(s) \/ OpenThread(s)
    PROVE  Inv'
<1>1. /\ req[s].pc \in {"find", "open"} /\ (Go(s, "block") \/ Go(s, "open"))
      /\ UNCHANGED <<messages, files, bell, owed, blocks>>
      /\ opened' \in BOOLEAN
  BY DEF FindThread, OpenThread, At, Inv, TypeOK
<1>2. ~req[s].barred
  BY <1>1 DEF Inv, Sound
<1> QED
  BY <1>1, <1>2, GoInv DEF Sending

\* The handler's last step, or the one before it.
LEMMA AfterSendStep ==
    ASSUME Inv, NEW s \in Requests, req[s].user \in Users, AfterSend(s)
    PROVE  \E n \in ReqType :
             /\ req' = [req EXCEPT ![s] = n]
             /\ \A msgs, blks : Sound(n, msgs, blks)
<1>1. [pc |-> "deliver", user |-> req[s].user] \in ReqType
  BY DEF ReqType
<1>2. \A msgs, blks : Sound([pc |-> "deliver", user |-> req[s].user], msgs, blks)
  BY DEF Sound
<1> QED
  BY <1>1, <1>2, IdleSound DEF AfterSend, Refuse

LEMMA LookUpClientIdInv ==
    ASSUME Inv, NEW s \in Requests, LookUpClientId(s)
    PROVE  Inv'
<1>1. /\ req[s].pc = "dup" /\ ~At(s, "notify") /\ (AfterSend(s) \/ Go(s, "insert"))
      /\ UNCHANGED <<opened, messages, files, bell, owed, blocks>>
      /\ opened' \in BOOLEAN
  BY DEF LookUpClientId, At, Inv, TypeOK
<1>2. req[s].user \in Users /\ ~req[s].barred
  BY <1>1, Fields DEF Inv, TypeOK, Sending, Sound
<1>3. CASE AfterSend(s)
  BY <1>1, <1>2, <1>3, AfterSendStep, QuietInv
<1>4. CASE Go(s, "insert")
  BY <1>1, <1>2, <1>4, GoInv DEF Sending
<1> QED
  BY <1>1, <1>3, <1>4

\* The copy of a message that was not deleted is sent on, checked for blocks.
LEMMA ReadForwardableInv ==
    ASSUME Inv, NEW s \in Requests, ReadForwardable(s)
    PROVE  Inv'
<1> DEFINE m == messages[req[s].msg]
           n == [pc |-> "block", user |-> req[s].user, barred |-> req[s].barred,
                 dto |-> [clientId |-> NoClientId, kind |-> "forward", file |-> m.file]]
<1>1. /\ req[s].pc = "source" /\ ~At(s, "notify")
      /\ UNCHANGED <<opened, messages, files, bell, owed, blocks>>
      /\ opened' \in BOOLEAN
      /\ Refuse(s) \/ req' = [req EXCEPT ![s] = n]
  BY DEF ReadForwardable, At, Inv, TypeOK
<1>2. /\ req[s].user \in Users /\ req[s].barred \in BOOLEAN
      /\ req[s].msg \in DOMAIN messages /\ (req[s].barred => blocks # {})
  BY <1>1, Fields DEF Inv, TypeOK, Sound
<1>3. m.file \in Ids \union {0}
  BY <1>2, MessageFields DEF Inv
<1>4. [clientId |-> NoClientId, kind |-> "forward", file |-> m.file] \in Payload
  BY <1>3 DEF Payload
<1>5. n \in ReqType
  BY <1>2, <1>4, SendingType DEF Sending
<1>6. Sound(n, messages, blocks)
  BY <1>2 DEF Sound
<1> HIDE DEF n
<1> QED
  BY <1>1, <1>5, <1>6, QuietInv, RefuseInv

\* The message is stored, and its sender's request owes the bell a row for it.
LEMMA InsertMessageInv ==
    ASSUME Inv, NEW s \in Requests, InsertMessage(s)
    PROVE  Inv'
<1> DEFINE len == Len(messages)
           u   == req[s].user
           dto == req[s].dto
           n   == [pc |-> "notify", user |-> u, msg |-> len + 1]
           file == FileOf(dto)
           m   == [sender |-> u, clientId |-> dto.clientId, file |-> file,
                   forwarded |-> dto.kind = "forward", body |-> "said",
                   deleted |-> FALSE, status |-> "SENT", read |-> FALSE]
<1>1. /\ req[s].pc = "insert" /\ len < MaxMessages
      /\ messages' = Append(messages, m)
      /\ files' = IF dto.kind = "upload" THEN [files EXCEPT ![len + 1] = "kept"]
                                         ELSE files
      /\ owed' = owed \union {len + 1}
      /\ req' = [req EXCEPT ![s] = n]
      /\ UNCHANGED <<opened, bell, blocks>>
  BY DEF InsertMessage, At
<1>2. /\ messages \in Seq(MessageType) /\ len \in Nat /\ MaxMessages \in Nat
      /\ DOMAIN messages = 1..len /\ len + 1 \in Ids
      /\ owed \subseteq 1..len
  BY <1>1, ChatAssumption DEF Inv, TypeOK, Ids
<1>3. u \in Users /\ dto \in Payload
  BY <1>1, Fields DEF Inv, TypeOK, Sending
<1>4. file \in Ids \union {0}
  BY <1>2, <1>3 DEF FileOf, Payload, NewMessage
<1>5. m \in MessageType
  <2>1. dto.clientId \in ClientIds \union {NoClientId}
    BY <1>3 DEF Payload, NewMessage
  <2> HIDE DEF file
  <2> QED
    BY <1>3, <1>4, <2>1 DEF MessageType
<1> HIDE DEF file
<1>6. m.sender = u
  OBVIOUS
<1> HIDE DEF m
<1>7. /\ messages' \in Seq(MessageType) /\ Len(messages') = len + 1
      /\ DOMAIN messages' = 1..(len + 1)
      /\ \A i \in 1..len : messages'[i] = messages[i]
      /\ messages'[len + 1] = m
  BY <1>1, <1>2, <1>5
<1>8. n \in ReqType
  BY <1>2, <1>3 DEF ReqType
<1>9. n.pc = "notify" /\ n.msg = len + 1 /\ n.user = u
  OBVIOUS
<1> HIDE DEF n, len
<1>10. TypeOK'
  BY <1>1, <1>2, <1>7, <1>8 DEF Inv, TypeOK
<1>11. Grows(messages, messages')
  BY <1>2, <1>7 DEF Grows
<1>12. ASSUME NEW t \in Requests PROVE Sound(req'[t], messages', blocks')
  <2>1. CASE t = s
    <3>1. req'[t] = n
      BY <1>1, <2>1 DEF Inv, TypeOK
    <3> QED
      BY <1>2, <1>6, <1>7, <1>9, <3>1 DEF Sound
  <2>2. CASE t # s
    BY <1>1, <1>11, <2>2, SoundKept DEF Inv, TypeOK
  <2> QED
    BY <2>1, <2>2
<1>13. ASSUME NEW i \in owed' PROVE Rung(i)'
  <2>1. CASE i = len + 1
    <3>1. req'[s] = n
      BY <1>1 DEF Inv, TypeOK
    <3> QED
      BY <1>9, <2>1, <3>1 DEF Rung, At
  <2>2. CASE i # len + 1
    <3>1. i \in owed /\ Rung(i) /\ messages'[i] = messages[i]
      BY <1>1, <1>2, <1>7, <1>13, <2>2 DEF Inv
    <3>2. CASE Other(messages[i].sender) \in bell
      BY <1>1, <3>1, <3>2 DEF Rung
    <3>3. CASE \E t \in Requests : At(t, "notify") /\ req[t].msg = i
      <4>1. PICK t \in Requests : At(t, "notify") /\ req[t].msg = i
        BY <3>3
      <4>2. req'[t] = req[t]
        BY <1>1, <4>1 DEF At, Inv, TypeOK
      <4>3. At(t, "notify")' /\ req'[t].msg = i
        BY <4>1, <4>2 DEF At
      <4> QED
        BY <4>3 DEF Rung
    <3> QED
      BY <3>1, <3>2, <3>3 DEF Rung
  <2> QED
    BY <2>1, <2>2
<1> QED
  BY <1>10, <1>12, <1>13 DEF Inv

\* The row is written, or lost to a fault that the message is forgiven for.
LEMMA NotifyInv ==
    ASSUME Inv, NEW s \in Requests, Notify(s) \/ NotifyFails(s)
    PROVE  Inv'
<1>1. /\ req[s].pc = "notify" /\ AfterSend(s)
      /\ UNCHANGED <<opened, messages, files, blocks>>
  BY DEF Notify, NotifyFails, At
<1>2. req[s].user \in Users
  BY <1>1, Fields DEF Inv, TypeOK
<1>3. PICK n \in ReqType :
        req' = [req EXCEPT ![s] = n] /\ \A msgs, blks : Sound(n, msgs, blks)
  BY <1>1, <1>2, AfterSendStep
<1>4. /\ bell \subseteq bell' /\ bell' \subseteq Users /\ owed' \subseteq owed
      /\ req[s].msg \notin owed' \/ Other(req[s].user) \in bell'
  BY <1>2, OtherIsUser DEF Notify, NotifyFails, Inv, TypeOK
<1>5. TypeOK'
  BY <1>1, <1>3, <1>4 DEF Inv, TypeOK
<1>6. Grows(messages, messages')
  BY <1>1 DEF Grows
<1>7. ASSUME NEW t \in Requests
      PROVE  \/ req'[t] = req[t]
             \/ /\ Sound(req'[t], messages', blocks')
                /\ \/ ~At(t, "notify") \/ req[t].msg \notin owed'
                   \/ Other(req[t].user) \in bell'
  BY <1>3, <1>4 DEF Inv, TypeOK
<1> QED
  BY <1>1, <1>4, <1>5, <1>6, <1>7, Keeps

\* Messages are changed in place, by a request that is done then or by none.
LEMMA InPlaceInv ==
    ASSUME Inv, NEW f \in [DOMAIN messages -> MessageType], messages' = f,
           \A i \in DOMAIN messages : f[i].sender = messages[i].sender,
           \/ UNCHANGED req
           \/ \E s \in Requests : ~At(s, "notify") /\ Refuse(s),
           files' \in [Ids -> {"none", "kept", "orphaned", "deleted"}],
           UNCHANGED <<opened, bell, owed, blocks>>
    PROVE  Inv'
<1>1. f \in Seq(MessageType) /\ Len(f) = Len(messages)
  <2>1. messages \in Seq(MessageType) /\ Len(messages) \in Nat
        /\ DOMAIN messages = 1..Len(messages)
    BY DEF Inv, TypeOK
  <2> QED
    BY <2>1
<1>2. req' \in [Requests -> ReqType]
  BY IdleSound DEF Inv, TypeOK, Refuse
<1>3. TypeOK'
  BY <1>1, <1>2 DEF Inv, TypeOK
<1>4. Grows(messages, messages')
  BY DEF Grows
<1>5. ASSUME NEW t \in Requests
      PROVE  req'[t] = req[t] \/ (Sound(req'[t], messages', blocks') /\ ~At(t, "notify"))
  BY IdleSound DEF Inv, TypeOK, Refuse
<1> QED
  BY <1>3, <1>4, <1>5, Keeps

\* A message with another status is still a message.
LEMMA StatusType ==
    ASSUME NEW m \in MessageType
    PROVE  /\ ~m.read => [m EXCEPT !.status = "DELIVERED"] \in MessageType
           /\ [m EXCEPT !.status = "READ", !.read = TRUE] \in MessageType
           /\ [m EXCEPT !.body = "said"] \in MessageType
           /\ [m EXCEPT !.deleted = TRUE, !.body = "null", !.file = 0] \in MessageType
BY DEF MessageType

LEMMA MarkDeliveredInv ==
    ASSUME Inv, NEW s \in Requests, MarkDelivered(s)
    PROVE  Inv'
<1> DEFINE f == [i \in DOMAIN messages |->
                   IF i \in Received(Other(req[s].user)) /\ messages[i].status = "SENT"
                   THEN [messages[i] EXCEPT !.status = "DELIVERED"] ELSE messages[i]]
<1>1. /\ messages' = f /\ Refuse(s) /\ ~At(s, "notify")
      /\ UNCHANGED <<opened, files, bell, owed, blocks>>
  BY DEF MarkDelivered, At
<1>2. ASSUME NEW i \in DOMAIN messages
      PROVE  f[i] \in MessageType /\ f[i].sender = messages[i].sender
  <2>1. messages[i] \in MessageType /\ (messages[i].read <=> messages[i].status = "READ")
    BY MessageFields DEF Inv
  <2>2. [messages[i] EXCEPT !.status = "DELIVERED"].sender = messages[i].sender
    BY <2>1 DEF MessageType
  <2> QED
    BY <2>1, <2>2, StatusType
<1>3. f \in [DOMAIN messages -> MessageType]
  BY <1>2
<1>4. files' \in [Ids -> {"none", "kept", "orphaned", "deleted"}]
  BY <1>1 DEF Inv, TypeOK
<1> HIDE DEF f
<1> QED
  BY <1>1, <1>2, <1>3, <1>4, InPlaceInv

LEMMA MarkReadInv ==
    ASSUME Inv, NEW u \in Users, MarkRead(u)
    PROVE  Inv'
<1> DEFINE f == [i \in DOMAIN messages |->
                   IF i \in Received(u) /\ ~messages[i].read
                   THEN [messages[i] EXCEPT !.status = "READ", !.read = TRUE]
                   ELSE messages[i]]
<1>1. messages' = f /\ UNCHANGED <<opened, files, bell, req, owed, blocks>>
  BY DEF MarkRead
<1>2. ASSUME NEW i \in DOMAIN messages
      PROVE  f[i] \in MessageType /\ f[i].sender = messages[i].sender
  <2>1. messages[i] \in MessageType
    BY MessageFields DEF Inv
  <2>2. [messages[i] EXCEPT !.status = "READ", !.read = TRUE].sender = messages[i].sender
    BY <2>1 DEF MessageType
  <2> QED
    BY <2>1, <2>2, StatusType
<1>3. f \in [DOMAIN messages -> MessageType]
  BY <1>2
<1>4. files' \in [Ids -> {"none", "kept", "orphaned", "deleted"}]
  BY <1>1 DEF Inv, TypeOK
<1> HIDE DEF f
<1> QED
  BY <1>1, <1>2, <1>3, <1>4, InPlaceInv

\* The update of one message, by the request that read it.
LEMMA UpdateInv ==
    ASSUME Inv, NEW s \in Requests, req[s].pc \in {"edit", "delete"}, Refuse(s),
           NEW m, m \in MessageType, m.sender = messages[req[s].msg].sender,
           messages' = [messages EXCEPT ![req[s].msg] = m],
           files' \in [Ids -> {"none", "kept", "orphaned", "deleted"}],
           UNCHANGED <<opened, bell, owed, blocks>>
    PROVE  Inv'
<1> DEFINE f == [messages EXCEPT ![req[s].msg] = m]
<1>1. f \in [DOMAIN messages -> MessageType] /\ messages' = f
  BY MessageFields DEF Inv, TypeOK
<1>2. ASSUME NEW i \in DOMAIN messages PROVE f[i].sender = messages[i].sender
  BY DEF Inv, TypeOK
<1>3. ~At(s, "notify")
  BY DEF At
<1> HIDE DEF f
<1> QED
  BY <1>1, <1>2, <1>3, InPlaceInv

LEMMA EditMessageInv ==
    ASSUME Inv, NEW s \in Requests, EditMessage(s)
    PROVE  Inv'
<1> DEFINE old == messages[req[s].msg]
           m   == [old EXCEPT !.body = "said"]
<1>1. /\ req[s].pc = "edit" /\ Refuse(s)
      /\ messages' = [messages EXCEPT ![req[s].msg] = m]
      /\ UNCHANGED <<opened, files, bell, owed, blocks>>
  BY DEF EditMessage, At
<1>2. req[s].msg \in DOMAIN messages
  BY <1>1 DEF Inv, Sound
<1>3. old \in MessageType
  BY <1>2, MessageFields DEF Inv
<1>4. m \in MessageType /\ m.sender = old.sender
  BY <1>3, StatusType DEF MessageType
<1>5. files' \in [Ids -> {"none", "kept", "orphaned", "deleted"}]
  BY <1>1 DEF Inv, TypeOK
<1> HIDE DEF m
<1> QED
  BY <1>1, <1>4, <1>5, UpdateInv

LEMMA DeleteMessageInv ==
    ASSUME Inv, NEW s \in Requests, DeleteMessage(s)
    PROVE  Inv'
<1> DEFINE old == messages[req[s].msg]
           m   == [old EXCEPT !.deleted = TRUE, !.body = "null", !.file = 0]
<1>1. /\ req[s].pc = "delete" /\ Refuse(s)
      /\ messages' = [messages EXCEPT ![req[s].msg] = m]
      /\ files' = [f \in Ids |-> IF f = req[s].file THEN "orphaned" ELSE files[f]]
      /\ UNCHANGED <<opened, bell, owed, blocks>>
  BY DEF DeleteMessage, At
<1>2. req[s].msg \in DOMAIN messages
  BY <1>1 DEF Inv, Sound
<1>3. old \in MessageType
  BY <1>2, MessageFields DEF Inv
<1>4. m \in MessageType /\ m.sender = old.sender
  BY <1>3, StatusType DEF MessageType
<1>5. files' \in [Ids -> {"none", "kept", "orphaned", "deleted"}]
  BY <1>1 DEF Inv, TypeOK
<1> HIDE DEF m
<1> QED
  BY <1>1, <1>4, <1>5, UpdateInv

\* What happens beside the thread and does not touch its requests.
LEMMA BesideInv ==
    ASSUME Inv, \/ \E f \in Ids : DeleteFile(f)
                \/ \E u \in Users : Block(u)
                \/ UNCHANGED vars
    PROVE  Inv'
<1>1. UNCHANGED <<opened, messages, bell, req, owed>> /\ blocks \subseteq blocks'
  BY DEF DeleteFile, Block, vars
<1>2. TypeOK'
  <2>1. CASE \E f \in Ids : DeleteFile(f)
    BY <2>1 DEF DeleteFile, Inv, TypeOK
  <2>2. CASE \E u \in Users : Block(u)
    BY <2>2 DEF Block, Inv, TypeOK
  <2>3. CASE UNCHANGED vars
    BY <2>3 DEF vars, Inv, TypeOK
  <2> QED
    BY <2>1, <2>2, <2>3
<1>3. Grows(messages, messages')
  BY <1>1 DEF Grows
<1> QED
  BY <1>1, <1>2, <1>3, Keeps

\* A block is lifted: who was barred all along is not any more once none is left.
LEMMA UnblockInv ==
    ASSUME Inv, NEW u \in Users, Unblock(u)
    PROVE  Inv'
<1> DEFINE still == blocks' # {}
<1>1. /\ blocks' = blocks \ {<<u, Other(u)>>}
      /\ req' = [s \in Requests |-> Barred(req[s], still)]
      /\ UNCHANGED <<opened, messages, files, bell, owed>>
  BY DEF Unblock
<1>2. ASSUME NEW r \in ReqType, Sound(r, messages, blocks)
      PROVE  /\ Barred(r, still) \in ReqType
             /\ Barred(r, still).pc = r.pc
             /\ r.pc = "notify" => Barred(r, still) = r
             /\ Sound(Barred(r, still), messages, blocks')
  <2> HIDE DEF still
  <2>1. CASE r.pc \in Sending
    <3>1. PICK pc \in Sending, v \in Users, b \in BOOLEAN, dto \in Payload :
            r = [pc |-> pc, user |-> v, barred |-> b, dto |-> dto]
      BY <1>2, <2>1, Fields
    <3>2. Barred(r, still) = [pc |-> pc, user |-> v, barred |-> b /\ still, dto |-> dto]
      BY <3>1 DEF Barred
    <3>3. Barred(r, still) \in ReqType
      BY <3>2, SendingType
    <3>4. Sound(Barred(r, still), messages, blocks')
      <4> DEFINE v1 == Barred(r, still)
      <4>1. v1.pc = r.pc /\ r.pc \in Sending /\ (v1.barred => r.barred)
        BY <3>1, <3>2
      <4>2. v1.barred => still
        <5>1. v1.barred = (b /\ still)
          BY <3>2
        <5> HIDE DEF v1
        <5> QED
          BY <5>1
      <4> HIDE DEF v1
      <4>3. Sound(v1, messages, blocks')
        BY <1>2, <4>1, <4>2 DEF Sound, Sending, still
      <4> QED
        BY <4>3 DEF v1
    <3> QED
      BY <3>1, <3>2, <3>3, <3>4 DEF Sending
  <2>2. CASE r.pc = "source"
    <3>1. PICK v \in Users, i \in Ids, b \in BOOLEAN :
            r = [pc |-> "source", user |-> v, msg |-> i, barred |-> b]
      BY <1>2, <2>2, Fields
    <3>2. Barred(r, still) = [pc |-> "source", user |-> v, msg |-> i, barred |-> b /\ still]
      BY <3>1 DEF Barred
    <3>3. Barred(r, still) \in ReqType
      BY <3>2 DEF ReqType
    <3>4. Sound(Barred(r, still), messages, blocks')
      <4> DEFINE v1 == Barred(r, still)
      <4>1. v1.pc = r.pc /\ v1.msg = r.msg
        BY <3>1, <3>2
      <4>2. v1.barred => still
        <5>1. v1.barred = (b /\ still)
          BY <3>2
        <5> HIDE DEF v1
        <5> QED
          BY <5>1
      <4> HIDE DEF v1
      <4>3. Sound(v1, messages, blocks')
        BY <1>2, <2>2, <4>1, <4>2 DEF Sound, still
      <4> QED
        BY <4>3 DEF v1
    <3> QED
      BY <3>1, <3>2, <3>3, <3>4
  <2>3. CASE r.pc \notin Sending \union {"source"}
    <3>1. Barred(r, still) = r
      BY <1>2, <2>3 DEF Barred, ReqType, Sending, Idle
    <3> QED
      BY <1>2, <2>3, <3>1 DEF Sound, Sending
  <2> QED
    BY <2>1, <2>2, <2>3
<1>3. ASSUME NEW t \in Requests
      PROVE  /\ req'[t] \in ReqType /\ req'[t].pc = req[t].pc
             /\ req[t].pc = "notify" => req'[t] = req[t]
             /\ Sound(req'[t], messages', blocks')
  <2>1. req[t] \in ReqType /\ Sound(req[t], messages, blocks)
    BY DEF Inv, TypeOK
  <2> HIDE DEF still
  <2> QED
    BY <1>1, <1>2, <2>1
<1>4. TypeOK'
  <2>1. req' \in [Requests -> ReqType]
    BY <1>1, <1>3
  <2> QED
    BY <1>1, <2>1 DEF Inv, TypeOK
<1>5. ASSUME NEW i \in owed' PROVE Rung(i)'
  <2>1. Rung(i)
    BY <1>1, <1>5 DEF Inv
  <2>2. CASE Other(messages[i].sender) \in bell
    BY <1>1, <2>2 DEF Rung
  <2>3. CASE \E s \in Requests : At(s, "notify") /\ req[s].msg = i
    <3>1. PICK s \in Requests : At(s, "notify") /\ req[s].msg = i
      BY <2>3
    <3>2. At(s, "notify")' /\ req'[s].msg = i
      BY <1>3, <3>1 DEF At
    <3> QED
      BY <3>2 DEF Rung
  <2> QED
    BY <2>1, <2>2, <2>3 DEF Rung
<1> QED
  BY <1>3, <1>4, <1>5 DEF Inv

\* Who looked at the inbox is owed nothing.
LEMMA ReadInboxInv ==
    ASSUME Inv, NEW u \in Users, ReadInbox(u)
    PROVE  Inv'
<1>1. /\ bell' = bell \ {u} /\ owed' = {i \in owed : messages[i].sender = u}
      /\ UNCHANGED <<opened, messages, files, blocks, req>>
  BY DEF ReadInbox
<1>2. TypeOK'
  BY <1>1 DEF Inv, TypeOK
<1>3. ASSUME NEW i \in owed' PROVE Rung(i)'
  <2>1. Rung(i) /\ messages[i].sender = u /\ Other(u) # u
    BY <1>1, <1>3, OtherIsUser DEF Inv
  <2> QED
    BY <1>1, <2>1 DEF Rung, At
<1> QED
  BY <1>1, <1>2, <1>3 DEF Inv

LEMMA RestartInv == Inv /\ Restart => Inv'
<1> SUFFICES ASSUME Inv, Restart PROVE Inv'
  OBVIOUS
<1>1. /\ req' = [s \in Requests |-> Idle]
      /\ owed' = owed \ {req[s].msg : s \in {t \in Requests : At(t, "notify")}}
      /\ UNCHANGED <<opened, messages, files, bell, blocks>>
  BY DEF Restart
<1>2. TypeOK'
  BY <1>1, IdleSound DEF Inv, TypeOK
<1>3. Grows(messages, messages')
  BY <1>1 DEF Grows
<1>4. ASSUME NEW t \in Requests
      PROVE  /\ Sound(req'[t], messages', blocks')
             /\ ~At(t, "notify") \/ req[t].msg \notin owed'
  BY <1>1, IdleSound
<1> QED
  BY <1>1, <1>2, <1>3, <1>4, Keeps

LEMMA InitInv == Init => Inv
<1> SUFFICES ASSUME Init PROVE Inv
  OBVIOUS
<1>1. opened \in BOOLEAN /\ blocks = {} /\ bell = {} /\ owed = {}
  BY DEF Init
<1>2. messages \in Seq(MessageType) /\ Len(messages) <= MaxMessages
  BY ChatAssumption DEF Init
<1>3. files \in [Ids -> {"none", "kept", "orphaned", "deleted"}]
  BY DEF Init
<1>4. req \in [Requests -> ReqType] /\ \A s \in Requests : Sound(req[s], messages, blocks)
  BY IdleSound DEF Init
<1> QED
  BY <1>1, <1>2, <1>3, <1>4 DEF Inv, TypeOK

LEMMA NextInv == Inv /\ [Next]_vars => Inv'
<1> SUFFICES ASSUME Inv, [Next]_vars PROVE Inv'
  OBVIOUS
<1>1. ASSUME NEW s \in Requests, Arrive(s) PROVE Inv'
  BY <1>1, AskSendInv, AskForwardInv, AskEditInv, AskDeleteInv, ChatAssumption DEF Arrive
<1>2. ASSUME NEW s \in Requests, Continue(s) PROVE Inv'
  BY <1>2, CheckBlockInv, FindThreadInv, LookUpClientIdInv, InsertMessageInv, NotifyInv,
     MarkDeliveredInv, ReadForwardableInv, EditMessageInv, DeleteMessageInv DEF Continue
<1> QED
  BY <1>1, <1>2, MarkReadInv, BesideInv, UnblockInv, ReadInboxInv, RestartInv DEF Next

-----------------------------------------------------------------------------
(* The theorems. *)

\* The invariant holds in every reachable state.
THEOREM Invariant == Spec => []Inv
BY InitInv, NextInv, PTL DEF Spec

\* However sends, receipts, looks at the inbox, blocks, faults and restarts
\* overlap, whoever was sent a message since they last looked at the inbox has
\* an unread row for it or is about to get one.
THEOREM BellMissesNobody == Spec => []BellRings
<1>1. Inv => BellRings
  BY DEF Inv, BellRings, Rung
<1> QED
  BY <1>1, Invariant, PTL

\* Whichever way a request takes to the insert, it stores nothing when a block
\* in either direction has stood ever since it came.
THEOREM BlocksStopMessages == Spec => BlockStopsTheNext
<1>1. Inv => \A s \in Requests : At(s, "insert") => ~req[s].barred
  BY DEF Inv, Sound, At
<1>2. Inv /\ [Next]_vars =>
        [\A s \in Requests :
           At(s, "insert") /\ messages' # messages /\ req'[s] # req[s] =>
             ~req[s].barred]_vars
  BY <1>1
<1> QED
  BY <1>2, Invariant, PTL DEF Spec, BlockStopsTheNext

-----------------------------------------------------------------------------
(* The refinement: every step writes, acknowledges or takes back an entry of *)
(* the log, or leaves it alone.                                              *)

LEMMA ThreadSame == UNCHANGED messages => UNCHANGED Thread
BY DEF Thread

\* insert writes.
LEMMA InsertWrites ==
    ASSUME Inv, NEW s \in Requests, InsertMessage(s)
    PROVE  Log!LogNext
<1> DEFINE len == Len(messages)
           u   == req[s].user
           m   == [sender |-> u, clientId |-> req[s].dto.clientId,
                   file |-> FileOf(req[s].dto),
                   forwarded |-> req[s].dto.kind = "forward", body |-> "said",
                   deleted |-> FALSE, status |-> "SENT", read |-> FALSE]
<1>1. req[s].pc = "insert" /\ messages' = Append(messages, m)
  BY DEF InsertMessage, At
<1>2. u \in Users
  BY <1>1, Fields DEF Inv, TypeOK, Sending
<1>3. EntryOf(m) = Log!Entry(u)
  BY DEF EntryOf, Log!Entry
<1>4. messages \in Seq(MessageType) /\ len \in Nat /\ DOMAIN messages = 1..len
  BY DEF Inv, TypeOK
<1> HIDE DEF m, len, u
<1>5. /\ DOMAIN messages' = 1..(len + 1)
      /\ \A i \in 1..len : messages'[i] = messages[i]
      /\ messages'[len + 1] = m
  BY <1>1, <1>4 DEF len
<1> DEFINE e == Log!Entry(u)
           t == Thread
           S == {EntryOf(messages[i]) : i \in 1..len} \union {e}
<1>6. t \in Seq(S) /\ Len(t) = len /\ DOMAIN t = 1..len /\ e \in S
  BY <1>4 DEF Thread
<1> HIDE DEF t, e
<1> DEFINE a == Append(t, e)
           n == len + 1
<1>7. /\ a \in Seq(S) /\ Len(a) = n /\ n \in Nat
      /\ \A i \in 1..len : a[i] = t[i]
      /\ a[n] = e
      /\ \A i \in 1..n : i \in 1..len \/ i = n
  BY <1>4, <1>6
<1>8. DOMAIN messages' = 1..n /\ messages'[n] = m
  BY <1>5
<1> HIDE DEF a, n
<1>9. \A i \in 1..n : EntryOf(messages'[i]) = a[i]
  <2>1. ASSUME NEW i \in 1..len PROVE EntryOf(messages'[i]) = a[i]
    <3>1. messages'[i] = messages[i] /\ a[i] = t[i]
      BY <1>5, <1>7, <2>1
    <3>2. t[i] = EntryOf(messages[i])
      BY <1>4, <2>1 DEF t, Thread
    <3> QED
      BY <3>1, <3>2
  <2>2. EntryOf(messages'[n]) = a[n]
    BY <1>3, <1>7, <1>8 DEF e
  <2> HIDE DEF S
  <2> QED
    BY <1>7, <2>1, <2>2
<1>10. Thread' = a
  <2> HIDE DEF S
  <2>1. Thread' = [i \in 1..n |-> EntryOf(messages'[i])]
    BY <1>8 DEF Thread
  <2>2. Thread' = [i \in 1..n |-> a[i]]
    BY <1>9, <2>1
  <2>3. a = [i \in 1..n |-> a[i]]
    BY <1>7
  <2> QED
    BY <2>2, <2>3
<1>11. Log!Write(u)
  BY <1>10 DEF Log!Write, t, e, a
<1> QED
  BY <1>2, <1>11 DEF Log!LogNext

\* A receipt acknowledges: what the other side sent, and only further.
LEMMA Acknowledges ==
    ASSUME Inv, NEW u \in Users, NEW from, NEW to,
           DOMAIN messages' = DOMAIN messages,
           \A i \in DOMAIN messages :
             IF messages[i].sender # u /\ messages[i].status \in from
             THEN /\ messages'[i].sender = messages[i].sender
                  /\ messages'[i].deleted = messages[i].deleted
                  /\ messages'[i].status = to
             ELSE messages'[i] = messages[i]
    PROVE  Log!Acknowledge(u, from, to)
<1>1. ASSUME NEW i \in DOMAIN messages
      PROVE  EntryOf(messages'[i]) =
               IF Thread[i].sender # u /\ Thread[i].receipt \in from
               THEN [Thread[i] EXCEPT !.receipt = to] ELSE Thread[i]
  <2>1. Thread[i] = EntryOf(messages[i])
    BY DEF Thread
  <2> QED
    BY <2>1 DEF EntryOf
<1>2. DOMAIN Thread = DOMAIN messages
  BY DEF Thread
<1>3. Thread' = [i \in DOMAIN messages |-> EntryOf(messages'[i])]
  BY DEF Thread
<1> QED
  BY <1>1, <1>2, <1>3 DEF Log!Acknowledge

LEMMA MarkDeliveredReceives ==
    ASSUME Inv, NEW s \in Requests, MarkDelivered(s)
    PROVE  Log!LogNext
<1> DEFINE u == Other(req[s].user)
<1>1. /\ req[s].pc = "deliver"
      /\ messages' = [i \in DOMAIN messages |->
                        IF i \in Received(u) /\ messages[i].status = "SENT"
                        THEN [messages[i] EXCEPT !.status = "DELIVERED"]
                        ELSE messages[i]]
  BY DEF MarkDelivered, At
<1>2. u \in Users
  BY <1>1, Fields, OtherIsUser DEF Inv, TypeOK
<1> HIDE DEF u
<1>3. ASSUME NEW i \in DOMAIN messages
      PROVE  IF messages[i].sender # u /\ messages[i].status \in {"SENT"}
             THEN /\ messages'[i].sender = messages[i].sender
                  /\ messages'[i].deleted = messages[i].deleted
                  /\ messages'[i].status = "DELIVERED"
             ELSE messages'[i] = messages[i]
  <2>1. messages[i] \in MessageType
    BY MessageFields DEF Inv
  <2> QED
    BY <1>1, <2>1 DEF Received, MessageType
<1>4. DOMAIN messages' = DOMAIN messages
  BY <1>1
<1>5. Log!Receive(u)
  BY <1>2, <1>3, <1>4, Acknowledges DEF Log!Receive
<1> QED
  BY <1>2, <1>5 DEF Log!LogNext

LEMMA MarkReadReads ==
    ASSUME Inv, NEW u \in Users, MarkRead(u)
    PROVE  Log!LogNext
<1>1. messages' = [i \in DOMAIN messages |->
                     IF i \in Received(u) /\ ~messages[i].read
                     THEN [messages[i] EXCEPT !.status = "READ", !.read = TRUE]
                     ELSE messages[i]]
  BY DEF MarkRead
<1>2. ASSUME NEW i \in DOMAIN messages
      PROVE  IF messages[i].sender # u /\ messages[i].status \in {"SENT", "DELIVERED"}
             THEN /\ messages'[i].sender = messages[i].sender
                  /\ messages'[i].deleted = messages[i].deleted
                  /\ messages'[i].status = "READ"
             ELSE messages'[i] = messages[i]
  <2>1. /\ messages[i] \in MessageType
        /\ ~messages[i].read <=> messages[i].status \in {"SENT", "DELIVERED"}
    BY MessageFields DEF Inv
  <2>2. /\ messages'[i] = IF i \in Received(u) /\ ~messages[i].read
                          THEN [messages[i] EXCEPT !.status = "READ", !.read = TRUE]
                          ELSE messages[i]
        /\ i \in Received(u) <=> messages[i].sender # u
    BY <1>1 DEF Received
  <2>3. LET n == [messages[i] EXCEPT !.status = "READ", !.read = TRUE]
        IN  /\ n.sender = messages[i].sender /\ n.deleted = messages[i].deleted
            /\ n.status = "READ"
    BY <2>1 DEF MessageType
  <2> QED
    BY <2>1, <2>2, <2>3
<1>3. DOMAIN messages' = DOMAIN messages
  BY <1>1
<1>4. Log!Read(u)
  BY <1>2, <1>3, Acknowledges DEF Log!Read
<1> QED
  BY <1>4 DEF Log!LogNext

\* An edit shows in no entry.
LEMMA EditStutters ==
    ASSUME Inv, NEW s \in Requests, EditMessage(s)
    PROVE  UNCHANGED Thread
<1> DEFINE i == req[s].msg
           m == [messages[i] EXCEPT !.body = "said"]
<1>1. req[s].pc = "edit" /\ messages' = [messages EXCEPT ![i] = m]
  BY DEF EditMessage, At
<1>2. i \in DOMAIN messages
  BY <1>1 DEF Inv, Sound
<1>3. messages[i] \in MessageType
  BY <1>2, MessageFields DEF Inv
<1>4. EntryOf(m) = EntryOf(messages[i])
  BY <1>3 DEF EntryOf, MessageType
<1> HIDE DEF m, i
<1>5. \A j \in DOMAIN messages : EntryOf(messages'[j]) = EntryOf(messages[j])
  BY <1>1, <1>4
<1>6. DOMAIN messages' = DOMAIN messages
  BY <1>1
<1> QED
  BY <1>5, <1>6 DEF Thread

LEMMA Gone ==
    ASSUME NEW a, NEW b, NEW c, NEW d
    PROVE  [[sender |-> a, receipt |-> b, gone |-> c] EXCEPT !.gone = d]
             = [sender |-> a, receipt |-> b, gone |-> d]
OBVIOUS

\* A deletion takes back, and only the sender's request asks for one.
LEMMA DeleteTakesBack ==
    ASSUME Inv, NEW s \in Requests, DeleteMessage(s)
    PROVE  Log!LogNext
<1> DEFINE i == req[s].msg
           m == [messages[i] EXCEPT !.deleted = TRUE, !.body = "null", !.file = 0]
           u == messages[i].sender
<1>1. req[s].pc = "delete" /\ messages' = [messages EXCEPT ![i] = m]
  BY DEF DeleteMessage, At
<1>2. i \in DOMAIN messages
  BY <1>1 DEF Inv, Sound
<1>3. messages[i] \in MessageType /\ u \in Users
  BY <1>2, MessageFields DEF Inv
<1>4. EntryOf(m) = [EntryOf(messages[i]) EXCEPT !.gone = TRUE]
  <2> HIDE DEF i
  <2>0. PICK t : t = TRUE
    OBVIOUS
  <2>1. /\ m.sender = messages[i].sender /\ m.status = messages[i].status
        /\ m.deleted = t
    BY <1>3, <2>0 DEF MessageType
  <2> HIDE DEF m
  <2>2. EntryOf(m) = [sender |-> messages[i].sender,
                      receipt |-> messages[i].status, gone |-> t]
    BY <2>1 DEF EntryOf
  <2>3. EntryOf(m) = [EntryOf(messages[i]) EXCEPT !.gone = t]
    BY <2>2, Gone DEF EntryOf
  <2> QED
    BY <2>0, <2>3
<1> HIDE DEF m, i
<1>5. /\ DOMAIN messages' = DOMAIN messages /\ messages'[i] = m
      /\ \A j \in DOMAIN messages : j # i => messages'[j] = messages[j]
  BY <1>1, <1>2
<1>6. /\ DOMAIN Thread = DOMAIN messages /\ Thread[i] = EntryOf(messages[i])
      /\ Thread = [j \in DOMAIN messages |-> Thread[j]]
      /\ \A j \in DOMAIN messages : Thread[j] = EntryOf(messages[j])
  BY <1>2 DEF Thread
<1>7. Thread' = [Thread EXCEPT ![i].gone = TRUE]
  <2>1. Thread' = [j \in DOMAIN messages |-> EntryOf(messages'[j])]
    BY <1>5 DEF Thread
  <2>2. \A j \in DOMAIN messages :
          EntryOf(messages'[j]) = IF j = i THEN [Thread[i] EXCEPT !.gone = TRUE]
                                           ELSE Thread[j]
    BY <1>4, <1>5, <1>6
  <2> QED
    BY <1>2, <1>6, <2>1, <2>2
<1>8. Thread[i].sender = u
  BY <1>6 DEF EntryOf
<1>9. Log!TakeBack(u, i)
  BY <1>7, <1>8 DEF Log!TakeBack
<1> QED
  BY <1>2, <1>3, <1>6, <1>9 DEF Log!LogNext

LEMMA NextIsLog == Inv /\ [Next]_vars => [Log!LogNext]_Thread
<1> SUFFICES ASSUME Inv, [Next]_vars PROVE Log!LogNext \/ UNCHANGED Thread
  OBVIOUS
<1>1. ASSUME NEW s \in Requests, Arrive(s) PROVE UNCHANGED messages
  BY <1>1 DEF Arrive, AskOpen, AskSend, AskForward, AskEdit, AskDelete
<1>2. ASSUME NEW s \in Requests,
             \/ CheckBlock(s) \/ FindThread(s) \/ OpenThread(s) \/ LookUpClientId(s)
             \/ Notify(s) \/ NotifyFails(s) \/ ReadForwardable(s)
      PROVE  UNCHANGED messages
  BY <1>2 DEF CheckBlock, FindThread, OpenThread, LookUpClientId, Notify, NotifyFails,
              ReadForwardable
<1>3. ASSUME NEW s \in Requests, Continue(s)
      PROVE  Log!LogNext \/ UNCHANGED Thread
  BY <1>2, <1>3, ThreadSame, InsertWrites, MarkDeliveredReceives, EditStutters,
     DeleteTakesBack DEF Continue
<1>4. ASSUME NEW u \in Users, Block(u) \/ Unblock(u) \/ ReadInbox(u)
      PROVE  UNCHANGED messages
  BY <1>4 DEF Block, Unblock, ReadInbox
<1>5. ASSUME \/ \E f \in Ids : DeleteFile(f)
             \/ Restart
             \/ UNCHANGED vars
      PROVE  UNCHANGED messages
  BY <1>5 DEF DeleteFile, Restart, vars
<1> QED
  BY <1>1, <1>3, <1>4, <1>5, ThreadSame, MarkReadReads DEF Next

\* A conversation is the log its participants were promised: whatever requests
\* overlap, no message is lost or moved, receipts only advance, and a deletion
\* is final.
THEOREM ImplementsTheLog == Spec => ThreadIsALog
<1>1. Init => Log!LogInit
  BY DEF Init, Log!LogInit, Thread
<1>2. Inv /\ [Next]_vars => [Log!LogNext]_Thread
  BY NextIsLog
<1> QED
  BY <1>1, <1>2, Invariant, PTL DEF Spec, ThreadIsALog, Log!LogSpec
=============================================================================
