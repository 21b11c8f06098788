-------------------------------- MODULE Paging --------------------------------
(***************************************************************************)
(* A client that reads a user's points page by page with GET               *)
(* /api/v1/points, while requests of Ingest change them.  The server       *)
(* counts what matches and selects the page in two statements, in no       *)
(* transaction, and anything may be committed in between, as between two   *)
(* requests.                                                               *)
(*                                                                         *)
(* The client goes on to the page X-Total-Pages names as the last: that of *)
(* each answer, or that of a HEAD it sent first.  A request that fails is  *)
(* sent again.                                                             *)
(***************************************************************************)
EXTENDS Ingest, FiniteSets

CONSTANT PageSize   \* the values of per_page clients ask for

ASSUME PageSizeAssumption == PageSize \subseteq Nat \ {0}

\* What the client asks for.  One that sends no end_at is given the time of each
\* request (openEnd); no start_at is the earliest of Time.
Query == [user : User, startAt : Time, openEnd : BOOLEAN, ascending : BOOLEAN,
          perPage : PageSize, headFirst : BOOLEAN]

VARIABLES
  query,
  endAt,         \* the upper end of the range, of the last request
  stage,         \* where the client is
  page,          \* the page it asks for
  tally,         \* the rows of the COUNT behind the X-Total-Pages it goes by:
                 \* the code has their number, the rows are history
  read,          \* the points it was sent
  promised,      \* history: points there when it set out, and there since
  late,          \* history: rows of the last page's list not in that COUNT
  full           \* history: the last page had as many points as were asked for

pagingVars ==
  <<ingestVars, query, endAt, stage, page, tally, read, promised, late, full>>

PagingTypeOK ==
  /\ query \in Query
  /\ endAt \in Time
  /\ stage \in {"idle", "probing", "asking", "counted", "done"}
  /\ page \in Nat \ {0}
  /\ tally \in SUBSET Time /\ read \in SUBSET Time
  /\ promised \in SUBSET Time /\ late \in SUBSET Time
  /\ full \in BOOLEAN

PagingInit ==
  /\ IngestInit
  /\ query \in Query
  /\ endAt \in Time
  /\ stage = "idle"
  /\ page = 1
  /\ tally = {} /\ read = {} /\ promised = {} /\ late = {} /\ full = FALSE

-----------------------------------------------------------------------------
(* Points().List *)

Selected(h, start, end) == {t \in Stored(h) : start <= t /\ t <= end}

\* The rows ORDER BY puts before that of t.
Ahead(rows, ascending, t) == {s \in rows : IF ascending THEN s < t ELSE s > t}

PlaceIn(rows, ascending, t) == Cardinality(Ahead(rows, ascending, t))

\* LIMIT perPage OFFSET (n - 1) * perPage
Page(rows, ascending, n, perPage) ==
  {t \in rows : PlaceIn(rows, ascending, t) \in (n - 1) * perPage .. n * perPage - 1}

\* Mutant: a last page that is not full is not counted.
TotalPagesFull(rows, perPage) == Cardinality(rows) \div perPage

\* X-Total-Pages
TotalPages(rows, perPage) == (Cardinality(rows) + perPage - 1) \div perPage

Matching(end) == Selected(points[query.user], query.startAt, end)

Place(t) == PlaceIn(Matching(endAt), query.ascending, t)

\* OFFSET: how many rows were on the pages before.
Passed == (page - 1) * query.perPage

\* end_at, or else the time of the request.
EndOfRequest == IF query.openEnd THEN {e \in Time : e >= endAt} ELSE {endAt}

-----------------------------------------------------------------------------
(* The client, and the statements of the handler *)

\* Mutant: pages are numbered from 0.
SetOutAtZero ==
  /\ stage = "idle"
  /\ stage' = IF query.headFirst THEN "probing" ELSE "asking"
  /\ page' = 0
  /\ promised' = Matching(endAt)
  /\ UNCHANGED <<ingestVars, query, endAt, tally, read, late, full>>

SetOut ==
  /\ stage = "idle"
  /\ stage' = IF query.headFirst THEN "probing" ELSE "asking"
  /\ page' = 1
  /\ promised' = Matching(endAt)
  /\ UNCHANGED <<ingestVars, query, endAt, tally, read, late, full>>

\* HEAD runs the same handler, and nobody sees the page it selects.  With no
\* pages there is nothing to ask for.
Probe ==
  /\ stage = "probing"
  /\ \E end \in EndOfRequest :
       /\ endAt' = end
       /\ tally' = Matching(end)
       /\ stage' = IF TotalPages(Matching(end), query.perPage) = 0 THEN "done" ELSE "asking"
  /\ UNCHANGED <<ingestVars, query, page, read, promised, late, full>>

\* SELECT COUNT(*)
Count ==
  /\ stage = "asking"
  /\ \E end \in EndOfRequest :
       /\ endAt' = end
       /\ tally' = IF query.headFirst THEN tally ELSE Matching(end)
  /\ stage' = "counted"
  /\ UNCHANGED <<ingestVars, query, page, read, promised, late, full>>

\* SELECT ... LIMIT OFFSET, and the answer.
List ==
  /\ stage = "counted"
  /\ LET rows == Matching(endAt)
         sent == Page(rows, query.ascending, page, query.perPage)
     IN  /\ read' = read \cup sent
         /\ full' = (Cardinality(sent) = query.perPage)
         /\ late' = rows \ tally
  /\ IF page >= TotalPages(tally, query.perPage)
     THEN stage' = "done" /\ UNCHANGED page
     ELSE stage' = "asking" /\ page' = page + 1
  /\ UNCHANGED <<ingestVars, query, endAt, tally, promised>>

\* 500, or the answer is lost: the same page again.
AskAgain ==
  /\ stage = "counted"
  /\ stage' = "asking"
  /\ UNCHANGED <<ingestVars, query, endAt, page, tally, read, promised, late, full>>

\* A step of the server or of a recalculation.  A deletion takes back what was
\* promised of the points it removes, and of those it moves to a page the client
\* has read; an insertion takes nothing back.
Meanwhile ==
  /\ IngestNext
  /\ UNCHANGED <<query, endAt, stage, page, tally, read, late, full>>
  /\ promised' =
       IF stage = "done" \/ Matching(endAt) \subseteq Matching(endAt)' THEN promised
       ELSE {t \in promised \cap Matching(endAt)' : ~ (Place(t) >= Passed /\ Place(t)' < Passed)}

PagingNext == Meanwhile \/ SetOut \/ Probe \/ Count \/ List \/ AskAgain

PagingSpec == PagingInit /\ [][PagingNext]_pagingVars

-----------------------------------------------------------------------------

\* A client that read to the last page has every point it set out to read, in
\* either order, however late or early the points are that arrive meanwhile, but
\* for those that deletions took from its way and one for each point that came
\* after the COUNT it goes by: between the two statements of the last request,
\* or since its HEAD.  It can tell: none is missing if the last page was not full.
PagesSkipNoPoint ==
  stage = "done" =>
    /\ Cardinality(promised \ read) <= Cardinality(late)
    /\ ~ full => promised \subseteq read

=============================================================================
