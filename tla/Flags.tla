-------------------------------- MODULE Flags --------------------------------
(***************************************************************************)
(* Complaints about reels and the comments under them                      *)
(* (VideoReportsService): one a person and target, and a moderator's       *)
(* decision, which closes the complaint, takes its target down if asked    *)
(* to, and closes the others about the same target, in statements of their *)
(* own.                                                                    *)
(*                                                                         *)
(* A removed reel keeps its row; a comment is deleted, and with it the     *)
(* complaints about it (sql/2026-10-24-notifications-and-comment-reports). *)
(***************************************************************************)
EXTENDS Requests

CONSTANTS Shots,      \* reels
          Notes,      \* comments, all under the reels
          WroteIt,    \* target -> its author
          MaxFlags,   \* bound: complaints ever filed
          MaxOutages  \* bound: restarts

VARIABLES standing,  \* the reels that are public, the comments that exist
          flags,     \* video_reports: id -> [target, by, status]
          flagsMade, \* ids given
          flagCalls, \* the requests in flight
          outages,
          closed,    \* ghost: target -> the complaints there were when one
                     \* was upheld
          upheld,    \* ghost: the targets a complaint was upheld about
          condemned  \* ghost: those a decision was to take down

flagGhosts == <<outages, closed, upheld, condemned>>
flagVars == <<standing, flags, flagsMade, flagCalls, flagGhosts>>

Targets == Shots \cup Notes
Decisions == {"RESOLVED", "DISMISSED"}
About(t) == {k \in DOMAIN flags : flags[k].target = t}

FlagsInit ==
    /\ standing = Targets
    /\ flags = [k \in {} |-> None]
    /\ flagsMade = 0 /\ outages = 0
    /\ flagCalls = [r \in Requests |-> Idle]
    /\ closed = [t \in Targets |-> 0]
    /\ upheld = {} /\ condemned = {}

FlagGoes(r, call) == flagCalls' = [flagCalls EXCEPT ![r] = call]

(* create, createForComment: a public reel, or a comment that exists, of   *)
(* somebody else.                                                          *)
AskFlag(r, t, u) ==
    /\ flagCalls[r] = Idle
    /\ t \in standing
    /\ WroteIt[t] # u
    /\ FlagGoes(r, [at |-> "insert", target |-> t, by |-> u])
    /\ UNCHANGED <<standing, flags, flagsMade, flagGhosts>>

(* The two unique indexes refuse a second one, the foreign key a comment   *)
(* that is gone by now; nothing looks at the reel again.                   *)
Refused(call) ==
    \/ \E k \in About(call.target) : flags[k].by = call.by
    \/ call.target \in Notes \ standing

InsertFlag(r) ==
    LET call == flagCalls[r] IN
    /\ call.at = "insert"
    /\ flagsMade < MaxFlags
    /\ IF Refused(call) THEN UNCHANGED <<flags, flagsMade>>
       ELSE /\ flagsMade' = flagsMade + 1
            /\ flags' = With(flags, flagsMade',
                  [target |-> call.target, by |-> call.by, status |-> "OPEN"])
    /\ FlagGoes(r, Idle)
    /\ UNCHANGED <<standing, flagGhosts>>

(***************************************************************************)
(* resolve                                                                 *)
(***************************************************************************)
AskDecision(r, k, decision, remove) ==
    /\ flagCalls[r] = Idle
    /\ k \in DOMAIN flags
    /\ FlagGoes(r, [at |-> "decide", id |-> k, target |-> flags[k].target,
                    decision |-> decision, remove |-> remove])
    /\ UNCHANGED <<standing, flags, flagsMade, flagGhosts>>

(* What comes after a statement of the decision. *)
Afterwards(call) ==
    IF call.at = "decide" /\ call.remove THEN [call EXCEPT !.at = "takeDown"]
    ELSE IF call.decision = "RESOLVED" THEN [call EXCEPT !.at = "others"] ELSE Idle

(* The complaint itself, if it is still there. *)
Decide(r) ==
    LET call == flagCalls[r] IN
    /\ call.at = "decide"
    /\ flags' = [k \in DOMAIN flags |-> IF k = call.id
                    THEN [flags[k] EXCEPT !.status = call.decision] ELSE flags[k]]
    /\ upheld' = IF call.decision = "RESOLVED" THEN upheld \cup {call.target} ELSE upheld
    /\ closed' = IF call.decision = "RESOLVED"
                  THEN [closed EXCEPT ![call.target] = flagsMade] ELSE closed
    /\ condemned' = IF call.remove THEN condemned \cup {call.target} ELSE condemned
    /\ FlagGoes(r, Afterwards(call))
    /\ UNCHANGED <<standing, flagsMade, outages>>

(* The target goes, a comment with the complaints about it. *)
Falls(t) ==
    /\ standing' = standing \ {t}
    /\ flags' = IF t \in Notes THEN Without(flags, About(t)) ELSE flags

FlagTakeDown(r) ==
    LET call == flagCalls[r] IN
    /\ call.at = "takeDown"
    /\ Falls(call.target)
    /\ FlagGoes(r, Afterwards(call))
    /\ UNCHANGED <<flagsMade, flagGhosts>>

(* The same target, not only the same reel. *)
FaultyOthers(t) ==
    {k \in DOMAIN flags : flags[k].status = "OPEN"}
Others(t) == {k \in About(t) : flags[k].status = "OPEN"}

CloseOthers(r) ==
    LET call == flagCalls[r] IN
    /\ call.at = "others"
    /\ flags' = [k \in DOMAIN flags |-> IF k \in Others(call.target)
                    THEN [flags[k] EXCEPT !.status = "RESOLVED"] ELSE flags[k]]
    /\ FlagGoes(r, Idle)
    /\ UNCHANGED <<standing, flagsMade, flagGhosts>>

(* Whoever else may take it down does: its author, the author of the reel, *)
(* a moderator who needs no complaint.                                     *)
Withdraw(t) ==
    /\ t \in standing
    /\ Falls(t)
    /\ UNCHANGED <<flagsMade, flagCalls, flagGhosts>>

FlagsRestart ==
    /\ ~Quiet(flagCalls)
    /\ outages < MaxOutages
    /\ outages' = outages + 1
    /\ flagCalls' = [r \in Requests |-> Idle]
    /\ UNCHANGED <<standing, flags, flagsMade, closed, upheld, condemned>>

FlagsNext ==
    \/ \E r \in Requests :
          \/ \E t \in Targets, u \in Users : AskFlag(r, t, u)
          \/ InsertFlag(r)
          \/ \E k \in DOMAIN flags, d \in Decisions, remove \in BOOLEAN :
                AskDecision(r, k, d, remove)
          \/ Decide(r) \/ FlagTakeDown(r) \/ CloseOthers(r)
    \/ \E t \in Targets : Withdraw(t)
    \/ FlagsRestart

FlagsSpec == FlagsInit /\ [][FlagsNext]_flagVars

FlagsTypeOK ==
    /\ standing \subseteq Targets
    /\ DOMAIN flags \subseteq 1 .. flagsMade
    /\ \A k \in DOMAIN flags :
          flags[k] \in [target : Targets, by : Users, status : Decisions \cup {"OPEN"}]

(* A decision reaches its target, wholly, and nothing else.  A complaint   *)
(* that stands upheld is about a target one was upheld about.  Once        *)
(* nothing is in flight, and no decision was cut off by a restart, what    *)
(* was to be taken down is down, and the queue does not ask again about    *)
(* what was upheld: a complaint still open was filed since.                *)
(* (video-reports.service.ts:256-308: "closing a complaint about one       *)
(* comment says nothing about a complaint about the clip")                 *)
VerdictsStayOnTarget ==
    /\ \A k \in DOMAIN flags :
          flags[k].status = "RESOLVED" => flags[k].target \in upheld
    /\ Quiet(flagCalls) /\ outages = 0 =>
          /\ condemned \cap standing = {}
          /\ \A t \in upheld : \A k \in About(t) :
                flags[k].status = "OPEN" => k > closed[t]
=============================================================================
