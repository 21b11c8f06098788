----------------------------- MODULE MCCheckinSync -----------------------------
(* Four check-ins of one account fill two pages; the window of a run holds     *)
(* all of them, or the last three if it begins a second later.                *)
EXTENDS CheckinSync, TLC

CONSTANTS c1, c2, c3, c4, f1, f2

MCOwner1 == [c \in Checkin |-> f1]
MCCreatedAt1 == [c \in Checkin |-> (c1 :> 1 @@ c2 :> 2 @@ c3 :> 3 @@ c4 :> 4)[c]]

=============================================================================
