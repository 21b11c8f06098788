----------------------------- MODULE MCTrackBuild -----------------------------
(* Every history over seven timestamps, gaps below, at and above the break. *)
EXTENDS TrackBuild

MCTime == {0, 5, 6, 12, 13, 20, 26}

=============================================================================
