------------------------------- MODULE Accounts -------------------------------
(***************************************************************************)
(* The foursquare_accounts table: which Swarm account a travelmap user has *)
(* linked.  A row's access token stands for the Swarm account it was       *)
(* issued to, so it is not kept apart from foursquare_user_id.             *)
(***************************************************************************)
EXTENDS Integers, Users

CONSTANTS
  FoursquareUser,  \* Swarm accounts
  Unlinked,        \* a user without a row
  Never            \* synced_through is NULL

ASSUME NeverAssumption == Never \notin Int

Account == [foursquare : FoursquareUser, synced : Int \cup {Never}]

ASSUME UnlinkedAssumption == Unlinked \notin Account

VARIABLE
  accounts         \* accounts[u]: the row of u, or Unlinked

AccountsType == accounts \in [User -> Account \cup {Unlinked}]

AccountsInit == accounts = [u \in User |-> Unlinked]

Linked(u) == accounts[u] # Unlinked

\* Mutant: the WHERE clause is lost.
AnyLinked(f) == {u \in User : Linked(u)}

\* ByFoursquareUserID: the users linked to a Swarm account, at most one.
ByFoursquareUserID(f) == {u \in User : Linked(u) /\ accounts[u].foursquare = f}

\* All: who is linked to what.
All == {<<u, accounts[u].foursquare>> : u \in {v \in User : Linked(v)}}

\* The row INSERT adds; the user and the Swarm account are both unique in the
\* table.
Create(u, f) ==
  /\ ~ Linked(u) /\ ByFoursquareUserID(f) = {}
  /\ accounts' = [accounts EXCEPT ![u] = [foursquare |-> f, synced |-> Never]]

\* UpdateSyncedThrough, found by user_id; an unlinked user has no row to change.
UpdateSyncedThrough(u, now) ==
  IF Linked(u) THEN [accounts EXCEPT ![u].synced = now] ELSE accounts

Disconnect(u) == accounts' = [accounts EXCEPT ![u] = Unlinked]

=============================================================================
