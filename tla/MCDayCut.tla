------------------------------- MODULE MCDayCut -------------------------------
(* Days of six hours, and timezones an hour or two from UTC whose offset      *)
(* changes by one hour near the midnight after the second day.                *)
EXTENDS DayCut

Z(before, after, at) == [before |-> before, after |-> after, at |-> at]

MCInstant == 4 .. 20

\* Every way an offset changes that leaves local midnight where it was.
RegularZones ==
  { Z(0, 0, 0), Z(-2, -2, 0), Z(2, 2, 0),    \* no change
    Z(-2, -1, 16), Z(-1, -2, 16),            \* west of UTC, away from midnight
    Z(1, 2, 13), Z(2, 1, 13),                \* east of UTC, away from midnight
    Z(0, 1, 13), Z(1, 0, 13),                \* through UTC, like London
    Z(-1, -2, 14),                           \* west: 01:00 back to 00:00, like Havana
    Z(-1, -2, 13), Z(2, 1, 10),              \* 24:00 back to 23:00, like Santiago
    Z(1, 2, 10) }                            \* 23:00 forward to 24:00

\* The setting is changed to a timezone whose days are cut elsewhere.
MCNewZone == { Z(-2, -1, 16) }

\* There is no midnight: 00:00 forward to 01:00, west of UTC like Santiago and
\* east of it like Cairo and Beirut.  Or there are two, east of UTC: 01:00 back
\* to 00:00, like Amman until 2022.
GapZones == { Z(-2, -1, 14), Z(1, 2, 11), Z(2, 1, 11) }

ASSUME \A z \in RegularZones : KeepsMidnight(z)
ASSUME \A z \in GapZones : ~ KeepsMidnight(z)

=============================================================================
