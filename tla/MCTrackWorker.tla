----------------------------- MODULE MCTrackWorker -----------------------------
(* Timestamps 0, 6 and 12 are each exactly a break from the next; without 6   *)
(* the other two are further apart.                                           *)
EXTENDS TrackWorker

MCTime == {0, 6, 12}

=============================================================================
