-------------------------------- MODULE Desk --------------------------------
(***************************************************************************)
(* The desk: one support thread a person, with its messages, the unread    *)
(* counter and the read stamp of each side (SupportService), and the       *)
(* applications for the verified badge, whose rejection is sent through    *)
(* that thread (VerificationService).                                      *)
(*                                                                         *)
(* Messages are numbered; a read stamp is the number of the last message   *)
(* there was when it was taken.  Every await is a step, a transaction's    *)
(* writes are one, and the process may restart between any two.            *)
(***************************************************************************)
EXTENDS Requests, Sequences

CONSTANTS MaxMessages,     \* bound: messages to and from one person
          MaxApplications, \* bound: applications ever made
          MaxRestarts      \* bound: restarts

VARIABLES threads,       \* support_threads: user -> None or the row
          letters,       \* support_messages: user -> seq of who wrote it
          applications,  \* verification_requests: id -> row
          filed,         \* ids given
          badge,         \* users.is_verified_realtor
          deskCalls,     \* the requests in flight
          restarts,
          readAlone,     \* ghost: nothing overlapped since this side read
          badgeMixed     \* ghost: decisions on this person overlapped or were cut

deskVars == <<threads, letters, applications, filed, badge, deskCalls,
              restarts, readAlone, badgeMixed>>

support == <<threads, letters>>
files == <<applications, filed, badge>>
deskGhosts == <<restarts, readAlone, badgeMixed>>

Sides == {"user", "desk"}
Other(side) == IF side = "user" THEN "desk" ELSE "user"
ThreadRows == [status : {"OPEN", "CLOSED"}, unread : [Sides -> Nat], readAt : [Sides -> Nat]]
ASSUME DeskNames == None \notin ThreadRows

NewThread == [status |-> "OPEN",
              unread |-> [s \in Sides |-> 0], readAt |-> [s \in Sides |-> 0]]

DeskInit ==
    /\ threads = [u \in Users |-> None]
    /\ letters = [u \in Users |-> <<>>]
    /\ applications = [k \in {} |-> None]
    /\ filed = 0
    /\ badge = [u \in Users |-> FALSE]
    /\ deskCalls = [r \in Requests |-> Idle]
    /\ restarts = 0
    /\ readAlone = [x \in Users \X Sides |-> TRUE]
    /\ badgeMixed = [u \in Users |-> FALSE]

DeskGoes(r, call) == deskCalls' = [deskCalls EXCEPT ![r] = call]

(* A request about person u arrives: until side s reads again, its counter *)
(* may be off if it was not alone.                                         *)
Comes(r, u, call) ==
    /\ deskCalls[r] = Idle
    /\ DeskGoes(r, call)
    /\ readAlone' = [x \in Users \X Sides |->
          IF x[1] # u THEN readAlone[x]
          ELSE IF call.at = "read" /\ x[2] = call.side THEN Alone(deskCalls, r)
          ELSE readAlone[x] /\ Alone(deskCalls, r)]
    /\ badgeMixed' = [badgeMixed EXCEPT ![u] = @ \/ ~Alone(deskCalls, r)]
    /\ UNCHANGED <<support, files, restarts>>

(***************************************************************************)
(* Messages                                                                *)
(***************************************************************************)

(* send, forward and adminSend read the thread, which a person's first     *)
(* message creates; the desk's adminThreadFor does too.                    *)
AskSend(r, u, side) ==
    /\ side = "desk" => threads[u] # None
    /\ Comes(r, u, [at |-> "thread", user |-> u, side |-> side])

ReadThread(r) ==
    LET call == deskCalls[r] IN
    /\ call.at = "thread"
    /\ DeskGoes(r, [at |-> "write", user |-> call.user, side |-> call.side,
                    copy |-> threads[call.user]])
    /\ UNCHANGED <<support, files, deskGhosts>>

\* Faulty: an answer that leaves the desk's own counter as it was.
FaultyAfterMessage(row, copy, side, n) ==
    IF side = "user"
    THEN [row EXCEPT !.status = "OPEN", !.unread["desk"] = copy.unread["desk"] + 1]
    ELSE [row EXCEPT !.unread["user"] = copy.unread["user"] + 1, !.readAt["desk"] = n]

(* The message, and the thread as the copy says it: the other side's       *)
(* counter is the copy's plus one.  A person's message opens the thread    *)
(* again; the desk's answers what was waiting and reads up to itself.      *)
AfterMessage(row, copy, side, n) ==
    IF side = "user"
    THEN [row EXCEPT !.status = "OPEN", !.unread["desk"] = copy.unread["desk"] + 1]
    ELSE [row EXCEPT !.unread = [desk |-> 0, user |-> copy.unread["user"] + 1],
                     !.readAt["desk"] = n]

WriteMessage(r) ==
    LET call == deskCalls[r]
        u == call.user
        copy == IF call.copy = None THEN NewThread ELSE call.copy
        n == Len(letters[u]) + 1 IN
    /\ call.at = "write"
    /\ n <= MaxMessages
    /\ IF call.copy = None /\ threads[u] # None
       THEN UNCHANGED support      \* uq_support_thread_user refuses: an error
       ELSE /\ letters' = [letters EXCEPT ![u] = Append(@, call.side)]
            /\ threads' = [threads EXCEPT ![u] = AfterMessage(
                  IF threads[u] = None THEN NewThread ELSE threads[u],
                  copy, call.side, n)]
    /\ DeskGoes(r, Idle)
    /\ UNCHANGED <<files, deskGhosts>>

(* markRead, adminMarkRead: the stamp is taken before the update is sent. *)
AskRead(r, u, side) ==
    /\ threads[u] # None
    /\ Comes(r, u, [at |-> "read", user |-> u, side |-> side,
                    stamp |-> Len(letters[u])])

MarkRead(r) ==
    LET call == deskCalls[r] IN
    /\ call.at = "read"
    /\ threads' = [threads EXCEPT ![call.user] =
          [@ EXCEPT !.unread[call.side] = 0, !.readAt[call.side] = call.stamp]]
    /\ DeskGoes(r, Idle)
    /\ UNCHANGED <<letters, files, deskGhosts>>

(* adminSetStatus: found, then one UPDATE of the column; what setPinned    *)
(* does to the pin, which nothing else reads, is not kept.                 *)
SetStatus(u, status) ==
    /\ threads[u] # None
    /\ threads' = [threads EXCEPT ![u].status = status]
    /\ UNCHANGED <<letters, files, deskCalls, deskGhosts>>

(***************************************************************************)
(* Applications                                                            *)
(***************************************************************************)
OfPerson(u, statuses) == {k \in DOMAIN applications :
    applications[k].user = u /\ applications[k].status \in statuses}
Mark(k, status) == applications' = [applications EXCEPT ![k].status = status]

(* submit: refused with a badge, or with an application that waits... *)
AskSubmit(r, u) ==
    /\ ~badge[u]
    /\ OfPerson(u, {"PENDING"}) = {}
    /\ Comes(r, u, [at |-> "submit", user |-> u])

(* ...which uq_verification_pending checks again. *)
SaveApplication(r) ==
    LET call == deskCalls[r] IN
    /\ call.at = "submit"
    /\ filed < MaxApplications
    /\ IF OfPerson(call.user, {"PENDING"}) = {}
       THEN /\ filed' = filed + 1
            /\ applications' = With(applications, filed + 1,
                                    [user |-> call.user, status |-> "PENDING"])
       ELSE UNCHANGED <<filed, applications>>
    /\ DeskGoes(r, Idle)
    /\ UNCHANGED <<support, badge, deskGhosts>>

(* approve, reject: mustBePending reads, and nothing holds the row after. *)
AskDecide(r, k, at) ==
    /\ k \in OfPerson(applications[k].user, {"PENDING"})
    /\ Comes(r, applications[k].user,
             [at |-> at, id |-> k, user |-> applications[k].user])

Approve(r) ==
    LET call == deskCalls[r] IN
    /\ call.at = "approve"
    /\ badge' = [badge EXCEPT ![call.user] = TRUE]
    /\ DeskGoes(r, [call EXCEPT !.at = "approved"])
    /\ UNCHANGED <<support, applications, filed, deskGhosts>>

MarkApproved(r) ==
    /\ deskCalls[r].at = "approved"
    /\ Mark(deskCalls[r].id, "APPROVED")
    /\ DeskGoes(r, Idle)
    /\ UNCHANGED <<support, filed, badge, deskGhosts>>

(* reject: the row, then the reason as a message of the desk, in a thread  *)
(* that is opened if there is none.                                        *)
MarkRejected(r) ==
    LET call == deskCalls[r] IN
    /\ call.at = "reject"
    /\ Mark(call.id, "REJECTED")
    /\ DeskGoes(r, [at |-> "openThread", user |-> call.user])
    /\ UNCHANGED <<support, filed, badge, deskGhosts>>

OpenThread(r) ==
    LET call == deskCalls[r] IN
    /\ call.at = "openThread"
    /\ threads' = [threads EXCEPT ![call.user] = IF @ = None THEN NewThread ELSE @]
    /\ DeskGoes(r, [at |-> "thread", user |-> call.user, side |-> "desk"])
    /\ UNCHANGED <<letters, files, deskGhosts>>

(* reopen: a decided application goes back to the queue unless one waits,  *)
(* and takes with it the badge it gave.                                    *)
AskReopen(r, k) ==
    /\ applications[k].status # "PENDING"
    /\ OfPerson(applications[k].user, {"PENDING"}) = {}
    /\ Comes(r, applications[k].user,
             [at |-> IF applications[k].status = "APPROVED" THEN "unbadge"
                                                            ELSE "reopen",
              id |-> k, user |-> applications[k].user])

Unbadge(r) ==
    LET call == deskCalls[r] IN
    /\ call.at = "unbadge"
    /\ badge' = [badge EXCEPT ![call.user] = FALSE]
    /\ DeskGoes(r, [call EXCEPT !.at = "reopen"])
    /\ UNCHANGED <<support, applications, filed, deskGhosts>>

Reopen(r) ==
    LET call == deskCalls[r] IN
    /\ call.at = "reopen"
    /\ IF OfPerson(call.user, {"PENDING"}) \subseteq {call.id}
       THEN Mark(call.id, "PENDING")
       ELSE UNCHANGED applications   \* the index refuses: an error
    /\ DeskGoes(r, Idle)
    /\ UNCHANGED <<support, filed, badge, deskGhosts>>

(* The process restarts: what was in flight is gone, a read with it. *)
DeskRestart ==
    /\ ~Quiet(deskCalls)
    /\ restarts < MaxRestarts
    /\ restarts' = restarts + 1
    /\ deskCalls' = [r \in Requests |-> Idle]
    /\ badgeMixed' = [u \in Users |-> badgeMixed[u] \/
          \E r \in Requests : deskCalls[r] # Idle /\ deskCalls[r].user = u]
    /\ readAlone' = [x \in Users \X Sides |-> readAlone[x] /\
          {r \in Requests : deskCalls[r].at = "read" /\ deskCalls[r].user = x[1]
                                                    /\ deskCalls[r].side = x[2]} = {}]
    /\ UNCHANGED <<support, files>>

DeskNext ==
    \/ \E r \in Requests :
          \/ \E u \in Users, side \in Sides : AskSend(r, u, side) \/ AskRead(r, u, side)
          \/ ReadThread(r) \/ WriteMessage(r) \/ MarkRead(r)
          \/ \E u \in Users : AskSubmit(r, u)
          \/ SaveApplication(r)
          \/ \E k \in DOMAIN applications :
                \/ AskDecide(r, k, "approve") \/ AskDecide(r, k, "reject")
                \/ AskReopen(r, k)
          \/ Approve(r) \/ MarkApproved(r) \/ MarkRejected(r) \/ OpenThread(r)
          \/ Unbadge(r) \/ Reopen(r)
    \/ \E u \in Users, status \in {"OPEN", "CLOSED"} : SetStatus(u, status)
    \/ DeskRestart

DeskSpec == DeskInit /\ [][DeskNext]_deskVars

DeskTypeOK ==
    /\ \A u \in Users : threads[u] # None => threads[u] \in ThreadRows
    /\ letters \in [Users -> Seq(Sides)]
    /\ DOMAIN applications \subseteq 1 .. filed
    /\ badge \in [Users -> BOOLEAN]

(* What the other side wrote after this side's read stamp. *)
Unseen(u, side) == {i \in DOMAIN letters[u] :
    i > threads[u].readAt[side] /\ letters[u][i] = Other(side)}

(* The badge beside the queue number and the stamp behind the ticks agree: *)
(* once nothing is in flight, each side's unread count is what the other   *)
(* wrote after its read stamp, if nothing overlapped since it last read,   *)
(* whatever restarts cut off but a read; reading again makes them agree.   *)
(* (support.service.ts:80-114, :153-157, :221-276, :284-289)               *)
UnreadIsUnseen ==
    Quiet(deskCalls) =>
        \A u \in Users, side \in Sides :
            threads[u] # None /\ readAlone[<<u, side>>] =>
                threads[u].unread[side] = Cardinality(Unseen(u, side))

(* Nobody wears the badge without an approved application, however often   *)
(* applications are decided, reopened and filed again, unless two          *)
(* decisions about the person overlapped or one was cut by a restart; and  *)
(* then everyone who stands rejected was written to.                       *)
(* (verification.service.ts:135-146, :155-177, :193-232)                   *)
BadgeIsApproved ==
    Quiet(deskCalls) =>
        \A u \in Users : ~badgeMixed[u] =>
            /\ badge[u] => OfPerson(u, {"APPROVED"}) # {}
            /\ OfPerson(u, {"REJECTED"}) # {} =>
                  \E i \in DOMAIN letters[u] : letters[u][i] = "desk"
=============================================================================
