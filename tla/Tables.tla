-------------------------------- MODULE Tables --------------------------------
(***************************************************************************)
(* The two tables internal/ingest and internal/track share: points, which  *)
(* one writes and the other reads, and track_split_jobs, through which one *)
(* tells the other that it wrote.                                          *)
(***************************************************************************)
EXTENDS Points, Users, Sequences

CONSTANT
  Run            \* the processes that execute `travelmap recalculate`

VARIABLES
  points,        \* points[u]: the history of user u
  jobs           \* track_split_jobs in id order: the users owed a rebuild

TablesType ==
  /\ points \in [User -> History]
  /\ jobs \in Seq(User)

TablesInit ==
  /\ points = [u \in User |-> NoHistory]
  /\ jobs = << >>

\* Points().UserIDs: the users who have points right now.
UserIDs == {u \in User : Stored(points[u]) # {}}

Queued(queue) == {queue[i] : i \in DOMAIN queue}

\* Mutant: a repeated request is moved to the end, as by INSERT OR REPLACE.
EnqueueLast(queue, u) == Append(SelectSeq(queue, LAMBDA v : v # u), u)

\* Tracks().Enqueue: user_id is unique in the table, and a repeated request
\* keeps the id, and with it the place, of the one it coalesces onto.
Enqueue(queue, u) == IF u \in Queued(queue) THEN queue ELSE Append(queue, u)

=============================================================================
