------------------------------ MODULE Requests ------------------------------
(***************************************************************************)
(* What the request-driven components share.  The backend is one process:  *)
(* a request runs until it awaits the database and other requests run in   *)
(* between, so every component keeps, for each request it serves, the      *)
(* place it awaits at and what it has read so far.                         *)
(***************************************************************************)
EXTENDS Naturals, FiniteSets

CONSTANTS Users,     \* the people
          Requests,  \* the requests that can be in flight at one time
          None

(* A request that is not being served. *)
Idle == [at |-> "idle"]

(* No request of the component is in flight. *)
Quiet(calls) == \A r \in Requests : calls[r] = Idle

(* Every other request is idle. *)
Alone(calls, r) == \A q \in Requests \ {r} : calls[q] = Idle

(* A table without the rows of the given keys. *)
Without(table, keys) == [k \in DOMAIN table \ keys |-> table[k]]

(* A table with one row more, or with that row replaced. *)
With(table, key, row) ==
    [k \in DOMAIN table \cup {key} |-> IF k = key THEN row ELSE table[k]]

(* GREATEST(n - k, 0) *)
Monus(n, k) == IF n > k THEN n - k ELSE 0
=============================================================================
