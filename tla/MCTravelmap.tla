----------------------------- MODULE MCTravelmap -----------------------------
(* Days ten seconds long.  8 and 14 are exactly a break apart across a        *)
(* midnight.                                                                  *)
EXTENDS Travelmap, TLC

DayLength == 10

MCTime == {8, 14}
MCMidnight == [t \in Time |-> t - (t % DayLength)]
MCNextMidnight == [d \in {MCMidnight[t] : t \in Time} |-> d + DayLength]

Symmetry == Permutations(User)

=============================================================================
