------------------------------- MODULE Follows -------------------------------
(***************************************************************************)
(* Who follows whom (FollowsService), and the two counters every follow    *)
(* keeps on the two people.  One statement writes the row and moves both.  *)
(* The deletion of an account (UsersService.deleteOwnAccount) moves them   *)
(* too, in three statements of one transaction: each sees what committed   *)
(* before it, and the people it has updated stay locked until the end.     *)
(***************************************************************************)
EXTENDS Requests

CONSTANT MaxFollows   \* bound: follow and unfollow requests ever made

(* A deletion under way: whose, its next statement, whom it has locked. *)
Erasures == [user : Users, at : {"followees", "fans", "rows"}, locked : SUBSET Users]

ASSUME FollowsAssumption == MaxFollows \in Nat /\ None \notin Erasures

VARIABLES follows,      \* <<follower, followee>>
          followers,    \* users.follower_count
          following,    \* users.following_count
          followCalls,  \* the requests in flight
          followsMade,  \* how many were made
          erasure,      \* the account being deleted, and how far it is
          erased,       \* the accounts deleted
          erasureRaced  \* ghost: a follow of the account came between

followVars == <<follows, followers, following, followCalls, followsMade,
                erasure, erased, erasureRaced>>

FollowersOf(u) == {f \in follows : f[2] = u}
FollowedBy(u) == {f \in follows : f[1] = u}

FollowsInit ==
    /\ follows = {} /\ erased = {}
    /\ followers = [u \in Users |-> 0]
    /\ following = [u \in Users |-> 0]
    /\ followCalls = [r \in Requests |-> Idle]
    /\ followsMade = 0
    /\ erasure = None
    /\ erasureRaced = FALSE

FollowGoes(r, call) == followCalls' = [followCalls EXCEPT ![r] = call]
StillAccounts == UNCHANGED <<erasure, erased, erasureRaced>>

(* setFollow: the target is found (a deleted account is scrubbed but keeps *)
(* its row and its status), oneself is refused.                            *)
AskFollow(r, a, b, next) ==
    /\ a # b
    /\ a \notin erased
    /\ followCalls[r] = Idle
    /\ followsMade < MaxFollows
    /\ followsMade' = followsMade + 1
    /\ FollowGoes(r, [at |-> IF next THEN "blocks" ELSE "write",
                      from |-> a, to |-> b, next |-> next])
    /\ StillAccounts
    /\ UNCHANGED <<follows, followers, following>>

(* assertNotBlocked, for a follow only: module Chat has the blocks, here   *)
(* it answers either way.                                                  *)
CheckFollow(r) ==
    LET call == followCalls[r] IN
    /\ call.at = "blocks"
    /\ \/ FollowGoes(r, [call EXCEPT !.at = "write"])
       \/ FollowGoes(r, Idle)
    /\ StillAccounts
    /\ UNCHANGED <<follows, followers, following, followsMade>>

Locked == IF erasure = None THEN {} ELSE erasure.locked

(* A slip: a repeated tap counts again. *)
FaultyMoved(row, next) == 1

(* How many rows the statement touches: none for a repeated tap. *)
Moved(row, next) == IF next THEN (IF row \in follows THEN 0 ELSE 1)
                            ELSE IF row \in follows THEN 1 ELSE 0

(* The row and both counters.  It waits for a locked person. *)
WriteFollow(r) ==
    LET call == followCalls[r]
        row == <<call.from, call.to>>
        n == Moved(row, call.next) IN
    /\ call.at = "write"
    /\ {call.from, call.to} \cap Locked = {}
    /\ follows' = IF call.next THEN follows \cup {row} ELSE follows \ {row}
    /\ followers' = [followers EXCEPT ![call.to] =
                        IF call.next THEN @ + n ELSE Monus(@, n)]
    /\ following' = [following EXCEPT ![call.from] =
                        IF call.next THEN @ + n ELSE Monus(@, n)]
    /\ erasureRaced' = (erasureRaced \/ (erasure # None /\ n > 0 /\
                                         erasure.user \in {call.from, call.to}))
    /\ FollowGoes(r, Idle)
    /\ UNCHANGED <<followsMade, erasure, erased>>

(***************************************************************************)
(* deleteOwnAccount, the statements that are about follows                 *)
(***************************************************************************)
BeginErasure(u) ==
    /\ erasure = None /\ u \notin erased
    /\ erasure' = [user |-> u, at |-> "followees", locked |-> {}]
    /\ UNCHANGED <<follows, followers, following, followCalls,
                   followsMade, erased, erasureRaced>>

Followees(u) == {f[2] : f \in FollowedBy(u)}
Fans(u) == {f[1] : f \in FollowersOf(u)}

(* Those the account follows lose a follower... *)
LeaveFollowees ==
    LET left == Followees(erasure.user) IN
    /\ erasure # None /\ erasure.at = "followees"
    /\ followers' = [u \in Users |-> IF u \in left THEN Monus(followers[u], 1)
                                                   ELSE followers[u]]
    /\ erasure' = [erasure EXCEPT !.at = "fans", !.locked = left]
    /\ UNCHANGED <<follows, following, followCalls, followsMade,
                   erased, erasureRaced>>

(* ...those that follow it follow one fewer... *)
LeaveFans ==
    LET left == Fans(erasure.user) IN
    /\ erasure # None /\ erasure.at = "fans"
    /\ following' = [u \in Users |-> IF u \in left THEN Monus(following[u], 1)
                                                   ELSE following[u]]
    /\ erasure' = [erasure EXCEPT !.at = "rows", !.locked = @ \cup left]
    /\ UNCHANGED <<follows, followers, followCalls, followsMade,
                   erased, erasureRaced>>

(* ...the rows go, and its own counters. *)
EraseFollows ==
    LET u == erasure.user IN
    /\ erasure # None /\ erasure.at = "rows"
    /\ follows' = follows \ (FollowersOf(u) \cup FollowedBy(u))
    /\ followers' = [followers EXCEPT ![u] = 0]
    /\ following' = [following EXCEPT ![u] = 0]
    /\ erased' = erased \cup {u}
    /\ erasure' = None
    /\ UNCHANGED <<followCalls, followsMade, erasureRaced>>

FollowsNext ==
    \/ \E r \in Requests :
          \/ \E a, b \in Users, next \in BOOLEAN : AskFollow(r, a, b, next)
          \/ CheckFollow(r)
          \/ WriteFollow(r)
    \/ \E u \in Users : BeginErasure(u)
    \/ LeaveFollowees
    \/ LeaveFans
    \/ EraseFollows

FollowsSpec == FollowsInit /\ [][FollowsNext]_followVars

FollowsTypeOK ==
    /\ follows \subseteq Users \X Users
    /\ followers \in [Users -> Nat]
    /\ following \in [Users -> Nat]
    /\ followsMade \in 0 .. MaxFollows
    /\ erasure \in Erasures \cup {None}

(* The two numbers under a name are the rows, at every moment outside the  *)
(* deletion of an account, however the taps repeat and overlap; and they   *)
(* still are after a deletion, unless somebody followed the account, or it *)
(* followed somebody, between its statements.                              *)
(* (follows.service.ts:61-69, users.service.ts:506-531)                    *)
FollowCountsAreRows ==
    erasure = None /\ ~erasureRaced =>
        \A u \in Users : /\ followers[u] = Cardinality(FollowersOf(u))
                         /\ following[u] = Cardinality(FollowedBy(u))
=============================================================================
