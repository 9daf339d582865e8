----------------------------- MODULE ThreadLog -----------------------------
(***************************************************************************)
(* What a conversation promises its two participants, whatever happens to  *)
(* the requests that make it: a log that is only appended to, in which the *)
(* receipts of a message only advance and a message that was taken back    *)
(* stays taken back.  A receipt covers everything the other side has sent  *)
(* so far.                                                                 *)
(***************************************************************************)
EXTENDS Sequences, Naturals

CONSTANT Writers

VARIABLE log

Entry(u) == [sender |-> u, receipt |-> "SENT", gone |-> FALSE]

LogInit == log = << >>

Write(u) == log' = Append(log, Entry(u))

\* The entries that u received, those with one of these receipts, get `to`.
Acknowledge(u, from, to) ==
    log' = [i \in DOMAIN log |->
              IF log[i].sender # u /\ log[i].receipt \in from
              THEN [log[i] EXCEPT !.receipt = to] ELSE log[i]]

Receive(u) == Acknowledge(u, {"SENT"}, "DELIVERED")
Read(u) == Acknowledge(u, {"SENT", "DELIVERED"}, "READ")

TakeBack(u, i) ==
    /\ log[i].sender = u
    /\ log' = [log EXCEPT ![i].gone = TRUE]

LogNext ==
    \E u \in Writers :
      \/ Write(u) \/ Receive(u) \/ Read(u)
      \/ \E i \in DOMAIN log : TakeBack(u, i)

LogSpec == LogInit /\ [][LogNext]_log
=============================================================================
