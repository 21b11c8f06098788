----------------------------- MODULE MCAccountLink -----------------------------
(* One browser two users share, two states and two callbacks under way: a flow *)
(* may be started twice, come back twice, and race the other one.              *)
(*                                                                             *)
(* Links and settings are two things a user sets that share no state: a run    *)
(* explores each while nothing happens to the other, settings of one user.     *)
EXTENDS AccountLink, MCSettings, TLC

OneAtATime ==
  \/ SettingsInit
  \/ Init /\ \A u, v \in User : settings[u] # NoRow /\ settings[v] # NoRow => u = v

MCNext ==
  \/ Next /\ UNCHANGED settingsVars
  \/ SettingsNext /\ UNCHANGED vars

MCInit == Init /\ SettingsInit

MCSpec == MCInit /\ [][MCNext]_<<vars, settingsVars>>

Symmetry == Permutations(Callback) \cup Permutations(User) \cup
            Permutations(State) \cup Permutations(FoursquareUser)

=============================================================================
