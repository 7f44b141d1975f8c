------------------------------- MODULE Polling -------------------------------
(***************************************************************************)
(* What the dashboard's line chart promises: every second it asks for a    *)
(* measurement, and every answer becomes one point, added after those that *)
(* are there.  Answers may be lost and may overtake each other.            *)
(***************************************************************************)
EXTENDS Naturals, Sequences

CONSTANT Request

VARIABLES
  asked,  \* the requests that have been sent
  ended,  \* those that will have no point, now or ever
  line    \* the requests whose points the chart shows, in order

pollVars == <<asked, ended, line>>

Shown == {line[k] : k \in DOMAIN line}

Ask(r) ==
  /\ r \notin asked
  /\ asked' = asked \cup {r}
  /\ UNCHANGED <<ended, line>>

\* No points for R: their answers are lost, or for other charts.
Pass(R) ==
  /\ R # {}
  /\ ended' = ended \cup R
  /\ UNCHANGED <<asked, line>>

AddPoint(r) ==
  /\ r \in asked \ (ended \cup Shown)
  /\ line' = Append(line, r)
  /\ UNCHANGED <<asked, ended>>

PollInit == asked = {} /\ ended = {} /\ line = <<>>

PollNext ==
  \/ \E r \in Request : Ask(r) \/ AddPoint(r)
  \/ \E R \in SUBSET (asked \ (ended \cup Shown)) : Pass(R)

PollSpec == PollInit /\ [][PollNext]_pollVars
=============================================================================
