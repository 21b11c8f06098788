------------------------------ MODULE CheckinSync ------------------------------
(***************************************************************************)
(* internal/checkin and the paging walk of internal/foursquare: two paths  *)
(* collect the same check-ins, pushes Foursquare sends and the periodic or *)
(* manual fetch of a window of each linked account's history.  Each        *)
(* statement of a run or a push commits on its own, so accounts, the       *)
(* Foursquare side and other runs change between any two of them.          *)
(*                                                                         *)
(* Of a check-in's contents the rendering alone is kept: it counts the     *)
(* edits made at Foursquare before the payload was produced.               *)
(***************************************************************************)
EXTENDS Accounts, FiniteSets

CONSTANTS
  Checkin,         \* foursquare_checkin_id
  Owner,           \* Owner[c]: the Swarm account c belongs to
  CreatedAt,       \* CreatedAt[c]: createdAt of c, in seconds
  Server,          \* the server's sync worker
  Command,         \* runs of `travelmap foursquare sync`, each another process
  Handler,         \* requests to the webhook handled at the same time
  PageLimit,       \* pageLimit
  Lookback,        \* foursquare.sync_lookback_days, in seconds
  FirstClock, MaxClock,  \* bounds on the time that passes
  Edited,          \* the check-ins that are edited, a bound
  MaxEdits,        \* bound on the edits of one
  NoRow,           \* the check-in is not stored
  NoPush           \* the handler is idle

\* An account checks in once a second at most, so the list is totally ordered.
ASSUME CheckinAssumption ==
  /\ Owner \in [Checkin -> FoursquareUser] /\ CreatedAt \in [Checkin -> Nat]
  /\ \A c, d \in Checkin : Owner[c] = Owner[d] /\ CreatedAt[c] = CreatedAt[d] => c = d
ASSUME BoundsAssumption ==
  /\ PageLimit \in Nat \ {0} /\ Lookback \in Nat
  /\ FirstClock \in Nat /\ MaxClock \in Nat /\ FirstClock <= MaxClock /\ MaxEdits \in Nat

Syncer == Server \cup Command
Link == User \X FoursquareUser
Rendering == 0 .. MaxEdits
Row == [user : User, source : {"push", "sync"}, rendering : Rendering]

ASSUME SyncerAssumption == Server \cap Command = {}
ASSUME NoneAssumption == NoRow \notin Row /\ NoPush \notin Checkin \X User

VARIABLES
  clock,
  listed,          \* Foursquare: listed[c] is "not yet", "listed" or "removed"
  edits,           \* Foursquare: the edits of c so far
  checkins,        \* the table: checkins[c] is the row of c, or NoRow
  sync,            \* sync[s]: where run s is
  push,            \* push[h]: the check-in h has resolved to a user, or NoPush
  everLinked,      \* history: every link there ever was
  everWalked,      \* history: the links whose history a run read to its end
  promised         \* history: the check-ins the walk of s must have stored

foursquare == <<clock, listed, edits>>
history == <<everLinked, everWalked, promised>>
vars == <<accounts, foursquare, checkins, sync, push, history>>

At(pc) == [pc |-> pc, accounts |-> {}]

Waiting == [pc : {"stopped", "idle", "between"}, accounts : SUBSET Link]

\* EachCheckinPage under way for one account, from now on back.
Walk ==
  [pc : {"fetching", "writing", "walked", "failed"}, accounts : SUBSET Link, account : Link,
   now : Nat, offset : Nat, previous : Nat \cup {Never}, seen : SUBSET Checkin,
   page : SUBSET (Checkin \X Rendering), oldest : Nat \cup {Never},
   then : {"next", "end", "stuck"}]

TypeOK ==
  /\ AccountsType
  /\ clock \in FirstClock .. MaxClock
  /\ listed \in [Checkin -> {"not yet", "listed", "removed"}]
  /\ edits \in [Checkin -> Rendering]
  /\ checkins \in [Checkin -> Row \cup {NoRow}]
  /\ sync \in [Syncer -> Waiting \cup Walk]
  /\ push \in [Handler -> (Checkin \X User) \cup {NoPush}]
  /\ everLinked \subseteq Link /\ everWalked \subseteq Link
  /\ promised \in [Syncer -> SUBSET Checkin]

Init ==
  /\ AccountsInit
  /\ clock = FirstClock
  /\ listed = [c \in Checkin |-> "not yet"]
  /\ edits = [c \in Checkin |-> 0]
  /\ checkins = [c \in Checkin |-> NoRow]
  /\ sync = [s \in Syncer |-> At("stopped")]
  /\ push = [h \in Handler |-> NoPush]
  /\ everLinked = {} /\ everWalked = {}
  /\ promised = [s \in Syncer |-> {}]

-----------------------------------------------------------------------------
(* Write: the upsert both paths share.  A repeat keeps the source. *)

Upsert(c, u, source, rendering) ==
  checkins' = [checkins EXCEPT ![c] =
    [user |-> u, source |-> IF @ = NoRow THEN source ELSE @.source, rendering |-> rendering]]

-----------------------------------------------------------------------------
(* Foursquare, and the users at the settings page *)

Tick ==
  /\ clock < MaxClock
  /\ clock' = clock + 1
  /\ UNCHANGED <<accounts, listed, edits, checkins, sync, push, history>>

\* Also after the fact: a check-in may be added with a time long past.
CheckIn(c) ==
  /\ listed[c] = "not yet" /\ CreatedAt[c] <= clock
  /\ listed' = [listed EXCEPT ![c] = "listed"]
  /\ UNCHANGED <<accounts, clock, edits, checkins, sync, push, history>>

Edit(c) ==
  /\ listed[c] = "listed" /\ c \in Edited /\ edits[c] < MaxEdits
  /\ edits' = [edits EXCEPT ![c] = @ + 1]
  /\ UNCHANGED <<accounts, clock, listed, checkins, sync, push, history>>

\* The check-ins the list of account f holds, and the place of one in its list,
\* newest first.
ListOf(f) == {c \in Checkin : Owner[c] = f /\ listed[c] = "listed"}

Before(c) == {d \in ListOf(Owner[c]) : CreatedAt[d] > CreatedAt[c]}

Rank(c) == Cardinality(Before(c))

Walking(s) == sync[s].pc \in {"fetching", "writing", "walked"}

\* The place of the list the walk of s fetches from next.
NextOffset(s) ==
  IF sync[s].pc = "fetching" THEN sync[s].offset ELSE sync[s].offset + PageLimit

\* Removing one moves up those behind it by a place, and a walk under way steps
\* over the one that was next: of what it promised it owes these two no more.
RemoveCheckin(c) ==
  /\ listed[c] = "listed"
  /\ listed' = [listed EXCEPT ![c] = "removed"]
  /\ promised' = [s \in Syncer |->
       IF Walking(s) /\ sync[s].account[2] = Owner[c]
         THEN {d \in promised[s] \ {c} : ~ (c \in Before(d) /\ Rank(d) = NextOffset(s))}
         ELSE promised[s]]
  /\ UNCHANGED <<accounts, clock, edits, checkins, sync, push, everLinked, everWalked>>

LinkAccount(u, f) ==
  /\ Create(u, f)
  /\ everLinked' = everLinked \cup {<<u, f>>}
  /\ UNCHANGED <<foursquare, checkins, sync, push, everWalked, promised>>

UnlinkAccount(u) ==
  /\ Linked(u)
  /\ Disconnect(u)
  /\ UNCHANGED <<foursquare, checkins, sync, push, history>>

-----------------------------------------------------------------------------
(* POST /webhooks/foursquare: WritePush *)

\* Mutant: the check-in is stored under the id in the push.
ResolveNobody(h, c) ==
  /\ push[h] = NoPush /\ listed[c] # "not yet"
  /\ \E u \in ByFoursquareUserID(Owner[c]) : push' = [push EXCEPT ![h] = <<c, Owner[c]>>]
  /\ UNCHANGED <<accounts, foursquare, checkins, sync, history>>

\* A push carries the check-in as it was made.  It may be delivered late, more
\* than once, or never.  One for an account nobody linked is dropped.
Resolve(h, c) ==
  /\ push[h] = NoPush /\ listed[c] # "not yet"
  /\ \E u \in ByFoursquareUserID(Owner[c]) : push' = [push EXCEPT ![h] = <<c, u>>]
  /\ UNCHANGED <<accounts, foursquare, checkins, sync, history>>

StorePush(h) ==
  /\ push[h] # NoPush
  /\ Upsert(push[h][1], push[h][2], "push", 0)
  /\ push' = [push EXCEPT ![h] = NoPush]
  /\ UNCHANGED <<accounts, foursquare, sync, history>>

\* The write fails, or the server stops first.
FailPush(h) ==
  /\ push[h] # NoPush
  /\ push' = [push EXCEPT ![h] = NoPush]
  /\ UNCHANGED <<accounts, foursquare, checkins, sync, history>>

-----------------------------------------------------------------------------
(* RunPeriodicSync, syncAll, Sync and EachCheckinPage *)

StartServer(s) ==
  /\ s \in Server /\ sync[s].pc = "stopped"
  /\ sync' = [sync EXCEPT ![s] = At("idle")]
  /\ UNCHANGED <<accounts, foursquare, checkins, push, history>>

\* The accounts are listed once, at the start of a run.
ListAccounts(s) == sync' = [sync EXCEPT ![s] = [pc |-> "between", accounts |-> All]]

\* A tick of the server.
Begin(s) ==
  /\ sync[s].pc = "idle"
  /\ ListAccounts(s)
  /\ UNCHANGED <<accounts, foursquare, checkins, push, history>>

\* Somebody runs `travelmap foursquare sync`, while the server may be at it too.
foursquareSync(s) ==
  /\ s \in Command /\ sync[s].pc = "stopped"
  /\ ListAccounts(s)
  /\ UNCHANGED <<accounts, foursquare, checkins, push, history>>

InWindow(now, c) == CreatedAt[c] >= now - Lookback

StartWalk(s, link) ==
  /\ sync[s].pc = "between" /\ link \in sync[s].accounts
  /\ sync' = [sync EXCEPT ![s] =
       [pc |-> "fetching", accounts |-> sync[s].accounts \ {link}, account |-> link,
        now |-> clock, offset |-> 0, previous |-> Never, seen |-> {}, page |-> {},
        oldest |-> Never, then |-> "next"]]
  /\ promised' = [promised EXCEPT ![s] = {c \in ListOf(link[2]) : InWindow(clock, c)}]
  /\ UNCHANGED <<accounts, foursquare, checkins, push, everLinked, everWalked>>

\* A page of the list, newest first, from offset on.
Page(f, offset) ==
  {c \in ListOf(f) : Rank(c) \in offset .. offset + PageLimit - 1}

Oldest(page) ==
  IF page = {} THEN Never
  ELSE CHOOSE t \in {CreatedAt[c] : c \in page} : \A c \in page : t <= CreatedAt[c]

\* What the walk does once the page is written: end at the end of the data or of
\* the window, fail on a full page that reaches no further back than the last.
Then(page, now, offset, previous) ==
  IF Cardinality(page) < PageLimit \/ Oldest(page) < now - Lookback THEN "end"
  ELSE IF offset > 0 /\ Oldest(page) >= previous THEN "stuck"
  ELSE "next"

FetchPage(s) ==
  /\ sync[s].pc = "fetching"
  /\ LET page == Page(sync[s].account[2], sync[s].offset)
         new  == {c \in page : InWindow(sync[s].now, c)} \ sync[s].seen
     IN  sync' = [sync EXCEPT
           ![s].pc = "writing",
           ![s].page = {<<c, edits[c]>> : c \in new},
           ![s].oldest = Oldest(page),
           ![s].then = Then(page, sync[s].now, sync[s].offset, sync[s].previous)]
  /\ UNCHANGED <<accounts, foursquare, checkins, push, history>>

\* One check-in of the page, as fetched, for the user of the account as listed.
\* The order within a page is nothing the rest depends on.
WriteFetched(s, c) ==
  /\ sync[s].pc = "writing"
  /\ \E r \in Rendering :
       /\ <<c, r>> \in sync[s].page
       /\ Upsert(c, sync[s].account[1], "sync", r)
       /\ sync' = [sync EXCEPT ![s].page = @ \ {<<c, r>>}, ![s].seen = @ \cup {c}]
  /\ UNCHANGED <<accounts, foursquare, push, history>>

\* Mutant: the offset is advanced by one too many.
PageWrittenTooFar(s) ==
  /\ sync[s].pc = "writing" /\ sync[s].page = {} /\ sync[s].then # "stuck"
  /\ sync' = [sync EXCEPT
       ![s].pc = IF sync[s].then = "end" THEN "walked" ELSE "fetching",
       ![s].offset = @ + PageLimit + 1,
       ![s].previous = sync[s].oldest]
  /\ UNCHANGED <<accounts, foursquare, checkins, push, history>>

PageWritten(s) ==
  /\ sync[s].pc = "writing" /\ sync[s].page = {} /\ sync[s].then # "stuck"
  /\ sync' = [sync EXCEPT
       ![s].pc = IF sync[s].then = "end" THEN "walked" ELSE "fetching",
       ![s].offset = @ + PageLimit,
       ![s].previous = sync[s].oldest]
  /\ UNCHANGED <<accounts, foursquare, checkins, push, history>>

NextAccount(s) == sync' = [sync EXCEPT ![s] = [pc |-> "between", accounts |-> @.accounts]]

\* ErrNoProgress.
Stuck(s) ==
  /\ sync[s].pc = "writing" /\ sync[s].page = {} /\ sync[s].then = "stuck"
  /\ NextAccount(s)
  /\ UNCHANGED <<accounts, foursquare, checkins, push, history>>

\* The walk succeeded.  The link it was made for may be gone or replaced.
Record(s) ==
  /\ sync[s].pc = "walked"
  /\ accounts' = UpdateSyncedThrough(sync[s].account[1], sync[s].now)
  /\ everWalked' = everWalked \cup {sync[s].account}
  /\ NextAccount(s)
  /\ UNCHANGED <<foursquare, checkins, push, everLinked, promised>>

\* A request or a write fails.
Fail(s) ==
  /\ \/ sync[s].pc \in {"fetching", "walked"}
     \/ sync[s].pc = "writing" /\ sync[s].page # {}
  /\ sync' = [sync EXCEPT ![s].pc = "failed"]
  /\ UNCHANGED <<accounts, foursquare, checkins, push, history>>

\* The server waits for the next tick, the command exits.
EndRun(s) ==
  /\ sync[s].pc = "between" /\ sync[s].accounts = {}
  /\ sync' = [sync EXCEPT ![s] = At(IF s \in Server THEN "idle" ELSE "stopped")]
  /\ UNCHANGED <<accounts, foursquare, checkins, push, history>>

\* Mutant: an error ends the run.
GiveUp(s) ==
  /\ sync[s].pc = "failed"
  /\ sync' = [sync EXCEPT ![s] = At("idle")]
  /\ UNCHANGED <<accounts, foursquare, checkins, push, history>>

\* The error is logged, or kept for the exit status of the command; the other
\* accounts still get their turn.
LogError(s) ==
  /\ sync[s].pc = "failed"
  /\ NextAccount(s)
  /\ UNCHANGED <<accounts, foursquare, checkins, push, history>>

\* The process is stopped or killed.
Stop(s) ==
  /\ sync[s].pc # "stopped"
  /\ sync' = [sync EXCEPT ![s] = At("stopped")]
  /\ UNCHANGED <<accounts, foursquare, checkins, push, history>>

-----------------------------------------------------------------------------

Environment ==
  \/ Tick
  \/ \E c \in Checkin : CheckIn(c) \/ Edit(c) \/ RemoveCheckin(c)
  \/ \E u \in User : UnlinkAccount(u) \/ \E f \in FoursquareUser : LinkAccount(u, f)

foursquareWebhook(h) == StorePush(h) \/ FailPush(h) \/ \E c \in Checkin : Resolve(h, c)

SyncStep(s) ==
  \/ Begin(s) \/ FetchPage(s) \/ PageWritten(s) \/ Stuck(s) \/ Record(s)
  \/ LogError(s) \/ EndRun(s)
  \/ \E link \in Link : StartWalk(s, link)
  \/ \E c \in Checkin : WriteFetched(s, c)

Next ==
  \/ Environment
  \/ \E h \in Handler : foursquareWebhook(h)
  \/ \E s \in Syncer :
       SyncStep(s) \/ StartServer(s) \/ foursquareSync(s) \/ Fail(s) \/ Stop(s)

Spec == Init /\ [][Next]_vars

\* The ticker of a server ticks, and a run under way goes on.  Nobody has to run
\* the command.
FairSpec == Spec /\ \A s \in Syncer : WF_vars(SyncStep(s))

-----------------------------------------------------------------------------

\* A check-in is stored for a user who linked the Swarm account it belongs to,
\* and never for another one, whatever was unlinked or linked anew between
\* listing the accounts or resolving the push and the write.
Attributed ==
  \A c \in Checkin : checkins[c] # NoRow => <<checkins[c].user, Owner[c]>> \in everLinked

\* A walk that succeeded stored every check-in that was in its window when it
\* began, also when check-ins arrived at any place of the list meanwhile and
\* moved others across a page boundary, and when another run or a push wrote
\* the same ones.  One that is removed costs it at most one other.
WalkCovers ==
  \A s \in Syncer : sync[s].pc = "walked" =>
    \A c \in promised[s] : checkins[c] # NoRow

\* A check-in that stays in the window of a linked account is collected some
\* day, unless that very account's requests keep failing or the server keeps
\* stopping: another account whose requests always fail is no obstacle.
Collected ==
  \A c \in {d \in Checkin : InWindow(MaxClock, d)}, s \in Server :
    <>[](/\ listed[c] = "listed" /\ ByFoursquareUserID(Owner[c]) # {}
         /\ sync[s].pc # "stopped"
         /\ sync[s].pc = "failed" => sync[s].account[2] # Owner[c])
    => <>(checkins[c] # NoRow)

\* "nil until the first one succeeds": an account that says how current it is
\* was read to the end of its window.
SyncedWasWalked ==
  \A u \in User : Linked(u) /\ accounts[u].synced # Never =>
    <<u, accounts[u].foursquare>> \in everWalked

=============================================================================
