------------------------------- MODULE MCIngest -------------------------------
(* Values of the constants of Reading and Paging for TLC: days ten seconds    *)
(* long.  5 and 8 share a day, and the day after it is empty.  8 and 21 are   *)
(* exactly a track break apart, 5 and 21 more than one: without 8 the day of  *)
(* 21 has no segment.  A month is two days long.  Three points are two pages  *)
(* of two or three of one.                                                    *)
(*                                                                            *)
(* A recalculation changes no points, and a client reads those of one user:   *)
(* recalculations are explored while no client reads, and the client while    *)
(* nobody else has points and the table was never emptied.                    *)
EXTENDS Reading, Paging, TLC

DayLength == 10

MCTime == {5, 8, 21}
MCMidnight == [t \in Time |-> t - (t % DayLength)]
MCMonth == [d \in {MCMidnight[t] : t \in Time} |-> d \div 20]
MCNextMidnight == [d \in {MCMidnight[t] : t \in Time} |-> d + DayLength]

\* What the client would ask for is fixed, and the worker keeps up.
NoClient ==
  /\ stage = "idle" /\ endAt = 21
  /\ query \in [user : User, startAt : {5}, openEnd : {FALSE}, ascending : {TRUE},
                perPage : {2}, headFirst : {FALSE}]
  /\ Len(jobs) <= 1

\* From the first point on, to the last one or to the time of the request; no
\* request to rebuild is claimed while points are stored.
OnlyClient ==
  /\ query.startAt = 5
  /\ query.openEnd \/ endAt = 21
  /\ query.openEnd \/ query.headFirst => query.perPage = 2
  /\ lastDelete = NoRun
  /\ Queued(jobs) \subseteq {query.user}
  /\ jobs = << >> => points[query.user] = NoHistory
  /\ \A u \in User \ {query.user} : points[u] = NoHistory

OneAtATime == NoClient \/ OnlyClient

MCNext ==
  \/ Meanwhile /\ OneAtATime'
  \/ SetOut \/ Probe \/ Count \/ List \/ AskAgain

MCSpec == PagingInit /\ [][MCNext]_pagingVars

Symmetry == Permutations(User) \cup Permutations(Run)

=============================================================================
