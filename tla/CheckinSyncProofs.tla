--------------------------- MODULE CheckinSyncProofs ---------------------------
(***************************************************************************)
(* Check-ins are stored for whom they belong to, and a walk that succeeded *)
(* has stored all it was to store, for any users, accounts, check-ins,     *)
(* runs, requests, page size and window.                                   *)
(***************************************************************************)
EXTENDS CheckinSync, FiniteSetTheorems, WellFoundedInduction, TLAPS

\* A set of natural numbers has a least element.
LEMMA LeastNat ==
  ASSUME NEW T \in SUBSET Nat, T # {}
  PROVE  \E t \in T : \A r \in T : t <= r
<1>1. PICK t \in T : \A r \in T : ~ (<<r, t>> \in OpToRel(<, Nat))
  BY NatLessThanWellFounded, WFMin, Zenon
<1>2. ASSUME NEW r \in T, ~ (t <= r) PROVE FALSE
  <2>1. <<r, t>> \in OpToRel(<, Nat)
    BY <1>2 DEF OpToRel
  <2> QED  BY <1>1, <2>1
<1> QED  BY <1>2

\* Some check-ins, if any, have an oldest.
LEMMA OldestExists ==
  ASSUME NEW page \in SUBSET Checkin, page # {}
  PROVE  \E c \in page : \A d \in page : CreatedAt[c] <= CreatedAt[d]
<1> DEFINE T == {CreatedAt[c] : c \in page}
<1>1. T \in SUBSET Nat /\ T # {} /\ \A d \in page : CreatedAt[d] \in T
  BY CheckinAssumption
<1>2. PICK t \in T : \A r \in T : t <= r
  <2> HIDE DEF T
  <2> QED  BY <1>1, LeastNat
<1> QED  BY <1>1, <1>2

\* The oldest createdAt of a page that is not empty is the one of a check-in.
LEMMA OldestType ==
  ASSUME NEW page \in SUBSET Checkin
  PROVE  /\ Oldest(page) \in Nat \cup {Never}
         /\ page # {} => \E c \in page : Oldest(page) = CreatedAt[c]
<1>1. CASE page = {}
  BY <1>1 DEF Oldest
<1>2. CASE page # {}
  <2> DEFINE T == {CreatedAt[c] : c \in page}
  <2>1. PICK c \in page : \A d \in page : CreatedAt[c] <= CreatedAt[d]
    BY <1>2, OldestExists
  <2>2. Oldest(page) \in T
    BY <1>2, <2>1 DEF Oldest
  <2> QED  BY <1>2, <2>2, CheckinAssumption
<1> QED  BY <1>1, <1>2

\* The clock and the renderings are numbers that may grow up to their bounds.
LEMMA Counting ==
  /\ \A t \in FirstClock .. MaxClock : t \in Nat
  /\ \A t \in FirstClock .. MaxClock : t < MaxClock => t + 1 \in FirstClock .. MaxClock
  /\ \A r \in Rendering : r < MaxEdits => r + 1 \in Rendering
  /\ 0 \in Rendering /\ FirstClock \in FirstClock .. MaxClock
<1>1. FirstClock \in Nat /\ MaxClock \in Nat /\ MaxEdits \in Nat /\ FirstClock <= MaxClock
  BY BoundsAssumption
<1> QED  BY <1>1 DEF Rendering

\* A walk that changes its place in the list stays well typed.
LEMMA WalkOn ==
  ASSUME NEW w \in Walk
  PROVE  \A pc \in {"fetching", "writing", "walked", "failed"}, offset \in Nat,
            previous \in Nat \cup {Never} :
           [w EXCEPT !.pc = pc, !.offset = offset, !.previous = previous] \in Walk
BY DEF Walk

\* What a run knows when it is in a walk, and when it is not.
LEMMA Shape ==
  ASSUME TypeOK, NEW s \in Syncer
  PROVE  /\ sync[s].accounts \in SUBSET Link
         /\ sync[s].pc \in {"fetching", "writing", "walked", "failed"} => sync[s] \in Walk
BY DEF TypeOK, Walk, Waiting

\* Where a run goes next is well typed.
LEMMA WaitingType ==
  ASSUME TypeOK, NEW s \in Syncer
  PROVE  /\ \A pc \in {"stopped", "idle"} : At(pc) \in Waiting
         /\ \A links \in SUBSET Link : [pc |-> "between", accounts |-> links] \in Waiting
BY DEF At, Waiting

-----------------------------------------------------------------------------
(* Type correctness *)

\* Foursquare and the settings page keep the type.
LEMMA EnvironmentType == TypeOK /\ Environment => TypeOK'
<1> SUFFICES ASSUME TypeOK, Environment PROVE TypeOK'
  OBVIOUS
<1> USE DEF TypeOK, AccountsType, history, foursquare
<1>1. CASE Tick
  BY <1>1, Counting DEF Tick
<1>2. ASSUME NEW c \in Checkin, CheckIn(c) PROVE TypeOK'
  BY <1>2 DEF CheckIn
<1>3. ASSUME NEW c \in Checkin, Edit(c) PROVE TypeOK'
  <2>1. edits[c] + 1 \in Rendering
    BY <1>3, Counting DEF Edit
  <2> QED  BY <1>3, <2>1 DEF Edit
<1>4. ASSUME NEW c \in Checkin, RemoveCheckin(c) PROVE TypeOK'
  BY <1>4 DEF RemoveCheckin
<1>5. ASSUME NEW u \in User, UnlinkAccount(u) PROVE TypeOK'
  BY <1>5 DEF UnlinkAccount, Disconnect
<1>6. ASSUME NEW u \in User, NEW f \in FoursquareUser, LinkAccount(u, f) PROVE TypeOK'
  <2>1. [foursquare |-> f, synced |-> Never] \in Account
    BY DEF Account
  <2>2. accounts' \in [User -> Account \cup {Unlinked}]
    BY <1>6, <2>1 DEF LinkAccount, Create
  <2>3. everLinked' \subseteq Link
    <3>1. <<u, f>> \in Link
      BY DEF Link
    <3> QED  BY <1>6, <3>1 DEF LinkAccount
  <2> QED  BY <1>6, <2>2, <2>3 DEF LinkAccount
<1> QED  BY <1>1, <1>2, <1>3, <1>4, <1>5, <1>6 DEF Environment

\* A row an upsert leaves is well typed.
LEMMA UpsertType ==
  ASSUME TypeOK, NEW c \in Checkin, NEW u \in User, NEW source \in {"push", "sync"},
         NEW r \in Rendering, Upsert(c, u, source, r)
  PROVE  checkins' \in [Checkin -> Row \cup {NoRow}]
BY NoneAssumption DEF TypeOK, Upsert, Row

\* A push keeps the type.
LEMMA WebhookType ==
  ASSUME TypeOK, NEW h \in Handler, foursquareWebhook(h)
  PROVE  TypeOK'
<1>1. CASE StorePush(h)
  <2>1. push[h][1] \in Checkin /\ push[h][2] \in User
    BY <1>1 DEF StorePush, TypeOK
  <2>2. 0 \in Rendering
    BY Counting
  <2>3. checkins' \in [Checkin -> Row \cup {NoRow}]
    BY <1>1, <2>1, <2>2, UpsertType DEF StorePush
  <2> QED  BY <1>1, <2>3 DEF StorePush, TypeOK, AccountsType, history, foursquare
<1>2. CASE FailPush(h)
  BY <1>2 DEF FailPush, TypeOK, AccountsType, history, foursquare
<1>3. ASSUME NEW c \in Checkin, Resolve(h, c) PROVE TypeOK'
  <2>1. PICK u \in User : push' = [push EXCEPT ![h] = <<c, u>>]
    BY <1>3 DEF Resolve, ByFoursquareUserID
  <2>2. push' \in [Handler -> (Checkin \X User) \cup {NoPush}]
    BY <2>1 DEF TypeOK
  <2> QED  BY <1>3, <2>2 DEF Resolve, TypeOK, AccountsType, history, foursquare
<1> QED  BY <1>1, <1>2, <1>3 DEF foursquareWebhook

\* So does a run.
LEMMA SyncType ==
  ASSUME TypeOK, NEW s \in Syncer,
         SyncStep(s) \/ StartServer(s) \/ foursquareSync(s) \/ Fail(s) \/ Stop(s)
  PROVE  TypeOK'
<1> USE DEF history, foursquare
<1>1. ASSUME StartServer(s) \/ Stop(s) \/ EndRun(s) PROVE TypeOK'
  BY <1>1, WaitingType DEF StartServer, Stop, EndRun, TypeOK, AccountsType
<1>2. CASE Begin(s) \/ foursquareSync(s)
  <2>1. All \in SUBSET Link
    <3>1. \A u \in User : Linked(u) => accounts[u].foursquare \in FoursquareUser
      BY DEF Linked, TypeOK, AccountsType, Account
    <3> QED  BY <3>1 DEF All, Link
  <2> QED  BY <1>2, <2>1, WaitingType DEF Begin, foursquareSync, ListAccounts, TypeOK, AccountsType
<1>3. ASSUME NEW link \in Link, StartWalk(s, link) PROVE TypeOK'
  <2>1. clock \in Nat
    BY Counting DEF TypeOK
  <2>2. sync'[s] \in Walk
    BY <1>3, <2>1, Shape DEF StartWalk, TypeOK, Walk
  <2>3. promised' \in [Syncer -> SUBSET Checkin]
    BY <1>3 DEF StartWalk, TypeOK, ListOf
  <2> QED  BY <1>3, <2>2, <2>3 DEF StartWalk, TypeOK, AccountsType
<1>4. CASE FetchPage(s)
  <2>1. sync[s] \in Walk
    BY <1>4, Shape DEF FetchPage
  <2> DEFINE page == Page(sync[s].account[2], sync[s].offset)
             new == {c \in page : InWindow(sync[s].now, c)} \ sync[s].seen
  <2>2. page \in SUBSET Checkin
    BY DEF Page, ListOf
  <2>3. Oldest(page) \in Nat \cup {Never}
    BY <2>2, OldestType
  <2>4. {<<c, edits[c]>> : c \in new} \in SUBSET (Checkin \X Rendering)
    <3>1. \A c \in new : c \in Checkin /\ edits[c] \in Rendering
      BY <2>2 DEF TypeOK
    <3> HIDE DEF new
    <3> QED  BY <3>1
  <2>5. Then(page, sync[s].now, sync[s].offset, sync[s].previous) \in {"next", "end", "stuck"}
    BY DEF Then
  <2>6. sync' = [sync EXCEPT ![s] = [sync[s] EXCEPT
           !.pc = "writing", !.page = {<<c, edits[c]>> : c \in new}, !.oldest = Oldest(page),
           !.then = Then(page, sync[s].now, sync[s].offset, sync[s].previous)]]
    BY <1>4, Zenon DEF FetchPage
  <2> HIDE DEF page, new
  <2>7. sync' \in [Syncer -> Waiting \cup Walk]
    BY <2>1, <2>3, <2>4, <2>5, <2>6 DEF TypeOK, Walk
  <2> QED  BY <1>4, <2>7 DEF FetchPage, TypeOK, AccountsType
<1>5. ASSUME NEW c \in Checkin, WriteFetched(s, c) PROVE TypeOK'
  <2>1. sync[s] \in Walk
    BY <1>5, Shape DEF WriteFetched
  <2>2. PICK r \in Rendering :
          /\ Upsert(c, sync[s].account[1], "sync", r)
          /\ sync' = [sync EXCEPT ![s].page = @ \ {<<c, r>>}, ![s].seen = @ \cup {c}]
    BY <1>5 DEF WriteFetched
  <2>3. checkins' \in [Checkin -> Row \cup {NoRow}]
    BY <2>1, <2>2, UpsertType DEF Walk, Link
  <2>4. sync' \in [Syncer -> Waiting \cup Walk]
    BY <2>1, <2>2 DEF TypeOK, Walk
  <2> QED  BY <1>5, <2>3, <2>4 DEF WriteFetched, TypeOK, AccountsType
<1>6. CASE PageWritten(s)
  <2>1. sync[s] \in Walk
    BY <1>6, Shape DEF PageWritten
  <2>2. sync' \in [Syncer -> Waiting \cup Walk]
    <3>1. sync[s].offset + PageLimit \in Nat /\ sync[s].oldest \in Nat \cup {Never}
      BY <2>1, BoundsAssumption DEF Walk
    <3>2. sync' = [sync EXCEPT ![s] = [sync[s] EXCEPT
             !.pc = IF sync[s].then = "end" THEN "walked" ELSE "fetching",
             !.offset = sync[s].offset + PageLimit, !.previous = sync[s].oldest]]
      BY <1>6, Zenon DEF PageWritten
    <3>3. sync'[s] \in Walk
      BY <2>1, <3>1, <3>2, WalkOn DEF TypeOK
    <3> QED  BY <3>2, <3>3 DEF TypeOK
  <2> QED  BY <1>6, <2>2 DEF PageWritten, TypeOK, AccountsType
<1>7. ASSUME Stuck(s) \/ LogError(s) PROVE TypeOK'
  <2>1. sync' = [sync EXCEPT ![s] = [pc |-> "between", accounts |-> sync[s].accounts]]
    BY <1>7 DEF Stuck, LogError, NextAccount
  <2>2. sync' \in [Syncer -> Waiting \cup Walk]
    BY <2>1, Shape, WaitingType DEF TypeOK
  <2> QED  BY <1>7, <2>2 DEF Stuck, LogError, TypeOK, AccountsType
<1>8. CASE Record(s)
  <2>1. sync[s] \in Walk
    BY <1>8, Shape DEF Record
  <2>2. AccountsType'
    <3>1. sync[s].account[1] \in User /\ sync[s].now \in Int
      BY <2>1 DEF Walk, Link
    <3>2. \A a \in Account, t \in Int : [a EXCEPT !.synced = t] \in Account
      BY DEF Account
    <3>3. accounts' = UpdateSyncedThrough(sync[s].account[1], sync[s].now)
      BY <1>8 DEF Record
    <3> QED  BY <3>1, <3>2, <3>3 DEF UpdateSyncedThrough, Linked, TypeOK, AccountsType
  <2>3. sync' \in [Syncer -> Waiting \cup Walk] /\ everWalked' \subseteq Link
    BY <1>8, <2>1, Shape, WaitingType DEF Record, NextAccount, TypeOK, Walk
  <2> QED  BY <1>8, <2>2, <2>3 DEF Record, TypeOK
<1>9. CASE Fail(s)
  <2>1. sync[s] \in Walk
    BY <1>9, Shape DEF Fail
  <2> QED  BY <1>9, <2>1 DEF Fail, TypeOK, AccountsType, Walk
<1> QED  BY <1>1, <1>2, <1>3, <1>4, <1>5, <1>6, <1>7, <1>8, <1>9 DEF SyncStep

\* Every reachable state is well typed.
THEOREM TypeCorrect == Spec => []TypeOK
<1>1. Init => TypeOK
  <2> SUFFICES ASSUME Init PROVE TypeOK
    OBVIOUS
  <2>1. At("stopped") \in Waiting
    BY DEF At, Waiting
  <2>2. sync \in [Syncer -> Waiting \cup Walk]
    BY <2>1 DEF Init
  <2>3. edits \in [Checkin -> Rendering] /\ clock \in FirstClock .. MaxClock
    BY Counting DEF Init
  <2> QED  BY <2>2, <2>3 DEF Init, AccountsInit, TypeOK, AccountsType
<1>2. TypeOK /\ [Next]_vars => TypeOK'
  <2> SUFFICES ASSUME TypeOK, [Next]_vars PROVE TypeOK'
    OBVIOUS
  <2>1. CASE Environment
    BY <2>1, EnvironmentType
  <2>2. ASSUME NEW h \in Handler, foursquareWebhook(h) PROVE TypeOK'
    BY <2>2, WebhookType
  <2>3. ASSUME NEW s \in Syncer, SyncStep(s) \/ StartServer(s) \/ foursquareSync(s) \/ Fail(s) \/ Stop(s) PROVE TypeOK'
    BY <2>3, SyncType
  <2>4. CASE UNCHANGED vars
    BY <2>4 DEF vars, foursquare, history, TypeOK, AccountsType
  <2> QED  BY <2>1, <2>2, <2>3, <2>4 DEF Next
<1> QED  BY <1>1, <1>2, PTL DEF Spec

-----------------------------------------------------------------------------
(* Attribution *)

\* Where the user of a row comes from: accounts as they are, the accounts a run
\* has listed, the one it walks with the page it writes, a push being stored.
AccountsKnown == \A u \in User : Linked(u) => <<u, accounts[u].foursquare>> \in everLinked

RunsKnown ==
  \A s \in Syncer :
    /\ sync[s].accounts \subseteq everLinked
    /\ sync[s].pc \in {"fetching", "writing", "walked", "failed"} => sync[s].account \in everLinked
    /\ sync[s].pc = "writing" => \A e \in sync[s].page : Owner[e[1]] = sync[s].account[2]

PushesKnown == \A h \in Handler : push[h] # NoPush => <<push[h][2], Owner[push[h][1]]>> \in everLinked

\* The strengthening of Attributed that every step keeps.
AttributedInv == AccountsKnown /\ RunsKnown /\ PushesKnown /\ Attributed

\* Foursquare and the settings page: links only ever come to be known.
LEMMA EnvironmentKnown == TypeOK /\ AttributedInv /\ Environment => AttributedInv'
<1> SUFFICES ASSUME TypeOK, AttributedInv, Environment PROVE AttributedInv'
  OBVIOUS
<1>1. everLinked \subseteq everLinked' /\ UNCHANGED <<checkins, sync, push>>
  BY DEF Environment, Tick, CheckIn, Edit, RemoveCheckin, LinkAccount, UnlinkAccount, history
<1>2. AccountsKnown'
  <2>1. ASSUME NEW u \in User, NEW f \in FoursquareUser, LinkAccount(u, f) PROVE AccountsKnown'
    <3>1. accounts'[u] = [foursquare |-> f, synced |-> Never] /\ <<u, f>> \in everLinked'
      BY <2>1 DEF LinkAccount, Create, TypeOK, AccountsType
    <3>2. \A v \in User \ {u} : accounts'[v] = accounts[v]
      BY <2>1 DEF LinkAccount, Create, TypeOK, AccountsType
    <3> QED  BY <1>1, <3>1, <3>2 DEF AttributedInv, AccountsKnown, Linked
  <2>2. ASSUME NEW u \in User, UnlinkAccount(u) PROVE AccountsKnown'
    BY <2>2, <1>1 DEF UnlinkAccount, Disconnect, TypeOK, AccountsType, AttributedInv, AccountsKnown, Linked
  <2>3. CASE UNCHANGED accounts
    BY <1>1, <2>3 DEF AttributedInv, AccountsKnown, Linked
  <2> QED  BY <2>1, <2>2, <2>3 DEF Environment, Tick, CheckIn, Edit, RemoveCheckin
<1>3. RunsKnown' /\ PushesKnown' /\ Attributed'
  BY <1>1 DEF AttributedInv, RunsKnown, PushesKnown, Attributed
<1> QED  BY <1>2, <1>3 DEF AttributedInv

\* An upsert for a user who linked the owner keeps rows attributed.
LEMMA UpsertAttributed ==
  ASSUME TypeOK, Attributed, UNCHANGED everLinked,
         NEW c \in Checkin, NEW u, NEW source, NEW rendering,
         Upsert(c, u, source, rendering), <<u, Owner[c]>> \in everLinked
  PROVE  Attributed'
<1>1. checkins'[c].user = u
  BY DEF Upsert, TypeOK
<1>2. \A d \in Checkin \ {c} : checkins'[d] = checkins[d]
  BY DEF Upsert, TypeOK
<1> QED  BY <1>1, <1>2 DEF Attributed

\* A push is stored for the user who had linked its owner when it was resolved.
LEMMA WebhookKnown ==
  ASSUME TypeOK, AttributedInv, NEW h \in Handler, foursquareWebhook(h)
  PROVE  AttributedInv'
<1>1. UNCHANGED <<accounts, sync, everLinked>>
  BY DEF foursquareWebhook, StorePush, FailPush, Resolve, history
<1>2. AccountsKnown' /\ RunsKnown'
  BY <1>1 DEF AttributedInv, AccountsKnown, RunsKnown, Linked
<1>3. CASE StorePush(h)
  <2>1. push[h][1] \in Checkin /\ <<push[h][2], Owner[push[h][1]]>> \in everLinked
    BY <1>3 DEF StorePush, AttributedInv, PushesKnown, TypeOK
  <2>2. Attributed'
    BY <1>1, <1>3, <2>1, UpsertAttributed DEF StorePush, AttributedInv
  <2>3. PushesKnown'
    BY <1>1, <1>3 DEF StorePush, AttributedInv, PushesKnown, TypeOK
  <2> QED  BY <1>2, <2>2, <2>3 DEF AttributedInv
<1>4. CASE FailPush(h)
  BY <1>1, <1>2, <1>4 DEF FailPush, AttributedInv, PushesKnown, Attributed, TypeOK
<1>5. ASSUME NEW c \in Checkin, Resolve(h, c) PROVE AttributedInv'
  <2>1. PICK u \in ByFoursquareUserID(Owner[c]) : push' = [push EXCEPT ![h] = <<c, u>>]
    BY <1>5 DEF Resolve
  <2>2. <<u, Owner[c]>> \in everLinked
    BY <2>1 DEF ByFoursquareUserID, AttributedInv, AccountsKnown
  <2>3. PushesKnown'
    BY <1>1, <2>1, <2>2 DEF AttributedInv, PushesKnown, TypeOK
  <2> QED  BY <1>1, <1>2, <1>5, <2>3 DEF Resolve, AttributedInv, Attributed
<1> QED  BY <1>3, <1>4, <1>5 DEF foursquareWebhook

\* A run that ends in a known place keeps every run in one.
LEMMA RunStepKnown ==
  ASSUME TypeOK, RunsKnown, UNCHANGED everLinked, NEW s \in Syncer, NEW w,
         sync' = [sync EXCEPT ![s] = w],
         w.accounts \subseteq everLinked,
         w.pc \in {"fetching", "writing", "walked", "failed"} => w.account \in everLinked,
         w.pc = "writing" => \A e \in w.page : Owner[e[1]] = w.account[2]
  PROVE  RunsKnown'
<1>1. sync'[s] = w /\ \A r \in Syncer \ {s} : sync'[r] = sync[r]
  BY DEF TypeOK
<1> QED  BY <1>1 DEF RunsKnown

\* A run fetches the check-ins of the account it walks, and stores them for the
\* user who had linked that account when the run listed it.
LEMMA SyncKnown ==
  ASSUME TypeOK, AttributedInv, NEW s \in Syncer,
         SyncStep(s) \/ StartServer(s) \/ foursquareSync(s) \/ Fail(s) \/ Stop(s)
  PROVE  AttributedInv'
<1> USE DEF history
<1>1. UNCHANGED <<push, everLinked>> /\ PushesKnown' /\ RunsKnown
  <2>1. UNCHANGED <<push, everLinked>>
    BY DEF SyncStep, StartServer, foursquareSync, ListAccounts, Fail, Stop, Begin, FetchPage, PageWritten, Stuck, Record, LogError,
           EndRun, StartWalk, WriteFetched
  <2> QED  BY <2>1 DEF AttributedInv, PushesKnown
<1>2. ASSUME UNCHANGED <<accounts, checkins>>, RunsKnown' PROVE AttributedInv'
  BY <1>1, <1>2 DEF AttributedInv, AccountsKnown, Attributed, Linked
<1>3. ASSUME NEW pc \in {"stopped", "idle"}, sync' = [sync EXCEPT ![s] = At(pc)] PROVE RunsKnown'
  <2>1. At(pc).accounts \subseteq everLinked /\ At(pc).pc \in {"stopped", "idle"}
    BY DEF At
  <2> HIDE DEF At
  <2> QED  BY <1>1, <1>3, <2>1, RunStepKnown
<1>4. ASSUME NextAccount(s) PROVE RunsKnown'
  <2> DEFINE w == [pc |-> "between", accounts |-> sync[s].accounts]
  <2>1. w.accounts \subseteq everLinked /\ w.pc = "between"
    BY <1>1 DEF RunsKnown
  <2>2. sync' = [sync EXCEPT ![s] = w]
    BY <1>4 DEF NextAccount
  <2> HIDE DEF w
  <2> QED  BY <1>1, <2>1, <2>2, RunStepKnown
<1>5. ASSUME StartServer(s) \/ Stop(s) \/ EndRun(s) PROVE AttributedInv'
  BY <1>2, <1>3, <1>5 DEF StartServer, Stop, EndRun
<1>6. ASSUME Stuck(s) \/ LogError(s) PROVE AttributedInv'
  BY <1>2, <1>4, <1>6 DEF Stuck, LogError
<1>7. CASE Begin(s) \/ foursquareSync(s)
  <2> DEFINE w == [pc |-> "between", accounts |-> All]
  <2>1. w.accounts \subseteq everLinked /\ w.pc = "between"
    BY DEF All, AttributedInv, AccountsKnown
  <2>2. sync' = [sync EXCEPT ![s] = w]
    BY <1>7 DEF Begin, foursquareSync, ListAccounts
  <2>3. RunsKnown'
    <3> HIDE DEF w
    <3> QED  BY <1>1, <2>1, <2>2, RunStepKnown
  <2> QED  BY <1>2, <1>7, <2>3 DEF Begin, foursquareSync
<1>8. ASSUME NEW link \in Link, StartWalk(s, link) PROVE AttributedInv'
  <2> DEFINE w == [pc |-> "fetching", accounts |-> sync[s].accounts \ {link}, account |-> link,
                   now |-> clock, offset |-> 0, previous |-> Never, seen |-> {}, page |-> {},
                   oldest |-> Never, then |-> "next"]
  <2>1. /\ sync' = [sync EXCEPT ![s] = w]
        /\ w.pc = "fetching" /\ w.account = link /\ w.accounts = sync[s].accounts \ {link}
    BY <1>8 DEF StartWalk
  <2>2. link \in everLinked /\ sync[s].accounts \subseteq everLinked
    BY <1>1, <1>8 DEF StartWalk, RunsKnown
  <2>3. RunsKnown'
    <3> HIDE DEF w
    <3> QED  BY <1>1, <2>1, <2>2, RunStepKnown
  <2> QED  BY <1>2, <1>8, <2>3 DEF StartWalk
<1>9. CASE FetchPage(s)
  <2> DEFINE page == Page(sync[s].account[2], sync[s].offset)
             new == {<<c, edits[c]>> : c \in {d \in page : InWindow(sync[s].now, d)} \ sync[s].seen}
  <2>1. sync[s] \in Walk /\ sync[s].pc = "fetching"
    BY <1>9, Shape DEF FetchPage
  <2>2. \A e \in new : Owner[e[1]] = sync[s].account[2]
    <3>1. \A c \in page : Owner[c] = sync[s].account[2]
      BY DEF Page, ListOf
    <3> HIDE DEF page
    <3> QED  BY <3>1
  <2>3. sync' = [sync EXCEPT ![s] = [sync[s] EXCEPT
           !.pc = "writing", !.page = new, !.oldest = Oldest(page),
           !.then = Then(page, sync[s].now, sync[s].offset, sync[s].previous)]]
    BY <1>9, Zenon DEF FetchPage
  <2>4. sync'[s].pc = "writing" /\ sync'[s].page = new
        /\ sync'[s].account = sync[s].account /\ sync'[s].accounts = sync[s].accounts
    <3> HIDE DEF new, page
    <3> QED  BY <2>1, <2>3 DEF TypeOK, Walk
  <2>5. RunsKnown'
    <3>1. PICK w : sync' = [sync EXCEPT ![s] = w] /\ w = sync'[s]
      BY <2>3, Zenon DEF TypeOK
    <3> HIDE DEF new, page
    <3> QED  BY <1>1, <2>1, <2>2, <2>4, <3>1, RunStepKnown DEF RunsKnown
  <2> QED  BY <1>2, <1>9, <2>5 DEF FetchPage
<1>10. ASSUME NEW c \in Checkin, WriteFetched(s, c) PROVE AttributedInv'
  <2>1. sync[s] \in Walk /\ sync[s].pc = "writing"
    BY <1>10, Shape DEF WriteFetched
  <2>2. PICK r \in Rendering :
          /\ <<c, r>> \in sync[s].page
          /\ Upsert(c, sync[s].account[1], "sync", r)
          /\ sync' = [sync EXCEPT ![s].page = @ \ {<<c, r>>}, ![s].seen = @ \cup {c}]
    BY <1>10 DEF WriteFetched
  <2>3. <<sync[s].account[1], Owner[c]>> \in everLinked
    <3>1. sync[s].account \in everLinked /\ Owner[c] = sync[s].account[2]
      BY <1>1, <2>1, <2>2 DEF RunsKnown
    <3>2. sync[s].account = <<sync[s].account[1], sync[s].account[2]>>
      BY <2>1 DEF Walk, Link
    <3> QED  BY <3>1, <3>2
  <2>4. Attributed'
    BY <1>1, <2>2, <2>3, UpsertAttributed DEF AttributedInv
  <2>5. /\ sync'[s].page \subseteq sync[s].page /\ sync'[s].pc = "writing"
        /\ sync'[s].account = sync[s].account /\ sync'[s].accounts = sync[s].accounts
        /\ \A q \in Syncer \ {s} : sync'[q] = sync[q]
    BY <2>1, <2>2 DEF TypeOK, Walk
  <2>6. RunsKnown'
    BY <1>1, <2>1, <2>5 DEF RunsKnown
  <2>7. UNCHANGED accounts
    BY <1>10 DEF WriteFetched
  <2> QED  BY <1>1, <2>4, <2>6, <2>7 DEF AttributedInv, AccountsKnown, Linked
<1>11. CASE PageWritten(s) \/ Fail(s)
  <2>1. sync[s] \in Walk
    BY <1>11, Shape DEF PageWritten, Fail
  <2>2. /\ sync'[s].pc \in {"walked", "fetching", "failed"}
        /\ sync'[s].account = sync[s].account /\ sync'[s].accounts = sync[s].accounts
        /\ \A q \in Syncer \ {s} : sync'[q] = sync[q]
    <3>1. CASE PageWritten(s)
      BY <2>1, <3>1 DEF PageWritten, TypeOK, Walk
    <3>2. CASE Fail(s)
      BY <2>1, <3>2 DEF Fail, TypeOK, Walk
    <3> QED  BY <1>11, <3>1, <3>2
  <2>3. RunsKnown'
    BY <1>1, <2>1, <2>2 DEF RunsKnown, Walk
  <2> QED  BY <1>2, <1>11, <2>3 DEF PageWritten, Fail
<1>12. CASE Record(s)
  <2>1. RunsKnown' /\ UNCHANGED checkins
    BY <1>4, <1>12 DEF Record
  <2>2. \A u \in User : Linked(u)' => Linked(u) /\ accounts'[u].foursquare = accounts[u].foursquare
    <3>1. accounts' = UpdateSyncedThrough(sync[s].account[1], sync[s].now)
      BY <1>12 DEF Record
    <3>2. \A a \in Account, t \in Int : [a EXCEPT !.synced = t].foursquare = a.foursquare
      BY DEF Account
    <3>3. sync[s].now \in Int
      BY <1>12, Shape DEF Record, Walk
    <3>4. CASE Linked(sync[s].account[1])
      <4> SUFFICES ASSUME NEW u \in User, Linked(u)'
                   PROVE  Linked(u) /\ accounts'[u].foursquare = accounts[u].foursquare
        OBVIOUS
      <4>1. accounts' = [accounts EXCEPT ![sync[s].account[1]] =
                           [accounts[sync[s].account[1]] EXCEPT !.synced = sync[s].now]]
        BY <3>1, <3>4, Zenon DEF UpdateSyncedThrough
      <4>2. CASE u = sync[s].account[1]
        <5>1. accounts[u] \in Account
          BY <3>4, <4>2 DEF Linked, TypeOK, AccountsType
        <5> QED  BY <3>2, <3>3, <3>4, <4>1, <4>2, <5>1 DEF TypeOK, AccountsType
      <4>3. CASE u # sync[s].account[1]
        BY <4>1, <4>3 DEF Linked, TypeOK, AccountsType
      <4> QED  BY <4>2, <4>3
    <3>5. CASE ~ Linked(sync[s].account[1])
      BY <3>1, <3>5 DEF UpdateSyncedThrough, Linked
    <3> QED  BY <3>4, <3>5
  <2> QED  BY <1>1, <2>1, <2>2 DEF AttributedInv, AccountsKnown, Attributed
<1> QED  BY <1>5, <1>6, <1>7, <1>8, <1>9, <1>10, <1>11, <1>12 DEF SyncStep

\* A check-in is only ever stored for a user who linked the account it belongs
\* to, however links, pushes and runs interleave.
THEOREM AlwaysAttributed == Spec => []Attributed
<1>1. Init => AttributedInv
  <2> SUFFICES ASSUME Init PROVE AttributedInv
    OBVIOUS
  <2>1. \A s \in Syncer : sync[s].accounts = {} /\ sync[s].pc = "stopped"
    BY DEF Init, At
  <2>2. AccountsKnown /\ PushesKnown /\ Attributed
    BY DEF Init, AccountsInit, AccountsKnown, PushesKnown, Attributed, Linked
  <2> QED  BY <2>1, <2>2 DEF AttributedInv, RunsKnown
<1>2. TypeOK /\ AttributedInv /\ [Next]_vars => AttributedInv'
  <2> SUFFICES ASSUME TypeOK, AttributedInv, [Next]_vars PROVE AttributedInv'
    OBVIOUS
  <2>1. CASE Environment
    BY <2>1, EnvironmentKnown
  <2>2. ASSUME NEW h \in Handler, foursquareWebhook(h) PROVE AttributedInv'
    BY <2>2, WebhookKnown
  <2>3. ASSUME NEW s \in Syncer, SyncStep(s) \/ StartServer(s) \/ foursquareSync(s) \/ Fail(s) \/ Stop(s) PROVE AttributedInv'
    BY <2>3, SyncKnown
  <2>4. CASE UNCHANGED vars
    BY <2>4 DEF vars, history, AttributedInv, AccountsKnown, RunsKnown, PushesKnown, Attributed, Linked
  <2> QED  BY <2>1, <2>2, <2>3, <2>4 DEF Next
<1>3. AttributedInv => Attributed
  BY DEF AttributedInv
<1> QED  BY <1>1, <1>2, <1>3, TypeCorrect, PTL DEF Spec

-----------------------------------------------------------------------------
(* What a walk covers *)

Listed == {c \in Checkin : listed[c] = "listed"}

\* What a walk has promised and nobody has stored yet.
Missing(s) == {c \in promised[s] : checkins[c] = NoRow}

\* The walk will still come to c: c is on the page it writes, or further on in
\* the list than what it has fetched, and then that page is not its last.
Ahead(s, c) ==
  \/ sync[s].pc = "fetching" /\ Rank(c) >= sync[s].offset
  \/ sync[s].pc = "writing" /\ \E r \in Rendering : <<c, r>> \in sync[s].page
  \/ /\ sync[s].pc = "writing" /\ sync[s].then # "end"
     /\ Rank(c) >= sync[s].offset + PageLimit

Covering(s) ==
  /\ \A c \in promised[s] : c \in ListOf(sync[s].account[2]) /\ InWindow(sync[s].now, c)
  /\ \A c \in sync[s].seen : checkins[c] # NoRow
  /\ \A c \in Missing(s) : Ahead(s, c)

CoverInv ==
  /\ IsFiniteSet(Listed)
  /\ \A s \in Syncer : Walking(s) => Covering(s)

-----------------------------------------------------------------------------
(* The list of an account, by rank *)

\* What is listed is a finite list at any time.
LEMMA ListsFinite ==
  ASSUME IsFiniteSet(Listed)
  PROVE  /\ \A f : IsFiniteSet(ListOf(f))
         /\ \A c \in Checkin : IsFiniteSet(Before(c)) /\ Rank(c) \in Nat
<1>1. ASSUME NEW f PROVE IsFiniteSet(ListOf(f))
  <2>1. ListOf(f) \in SUBSET Listed
    BY DEF ListOf, Listed
  <2> QED  BY <2>1, FS_Subset
<1>2. ASSUME NEW c \in Checkin PROVE IsFiniteSet(Before(c)) /\ Rank(c) \in Nat
  <2>1. Before(c) \in SUBSET Listed
    BY DEF Before, ListOf, Listed
  <2> QED  BY <2>1, FS_Subset, FS_CardinalityType DEF Rank
<1> QED  BY <1>1, <1>2

\* An older check-in of an account has the higher rank.
LEMMA RankOrder ==
  ASSUME IsFiniteSet(Listed), NEW f, NEW c \in ListOf(f), NEW d \in ListOf(f),
         CreatedAt[c] < CreatedAt[d]
  PROVE  Rank(d) < Rank(c)
<1>1. c \in Checkin /\ d \in Checkin /\ Owner[c] = f /\ Owner[d] = f
  BY DEF ListOf
<1>2. \A b \in Checkin : CreatedAt[b] \in Nat
  BY CheckinAssumption
<1>3. Before(d) \in SUBSET Before(c)
  BY <1>1, <1>2 DEF Before, ListOf
<1>4. d \in Before(c) /\ d \notin Before(d)
  BY <1>1, <1>2 DEF Before
<1>5. Rank(d) <= Rank(c) /\ Rank(d) # Rank(c)
  BY <1>1, <1>3, <1>4, ListsFinite, FS_Subset, Zenon DEF Rank
<1> QED  BY <1>1, <1>5, ListsFinite

\* No two of an account have the same rank.
LEMMA RankTotal ==
  ASSUME NEW f, NEW c \in ListOf(f), NEW d \in ListOf(f), c # d
  PROVE  CreatedAt[c] < CreatedAt[d] \/ CreatedAt[d] < CreatedAt[c]
<1>1. c \in Checkin /\ d \in Checkin /\ Owner[c] = f /\ Owner[d] = f
  BY DEF ListOf
<1>2. CreatedAt[c] \in Nat /\ CreatedAt[d] \in Nat /\ CreatedAt[c] # CreatedAt[d]
  BY <1>1, CheckinAssumption
<1> QED  BY <1>2

\* At most k check-ins come before place k, and all k of them if the list goes
\* on to that place.
LEMMA FirstRanks ==
  ASSUME IsFiniteSet(Listed), NEW f, NEW k \in Nat
  PROVE  LET first == {d \in ListOf(f) : Rank(d) < k}
         IN  /\ IsFiniteSet(first) /\ Cardinality(first) \in Nat /\ Cardinality(first) <= k
             /\ (\E c \in ListOf(f) : Rank(c) >= k) => Cardinality(first) = k
<1> DEFINE first == {d \in ListOf(f) : Rank(d) < k}
<1>0. /\ first \in SUBSET ListOf(f) /\ ListOf(f) \in SUBSET Checkin
      /\ \A c \in ListOf(f) : c \in Checkin /\ Owner[c] = f /\ Rank(c) \in Nat
                              /\ CreatedAt[c] \in Nat
  BY ListsFinite, CheckinAssumption DEF ListOf
<1>1. IsFiniteSet(first) /\ Cardinality(first) \in Nat
  BY <1>0, ListsFinite, FS_Subset, FS_CardinalityType
<1>2. Cardinality(first) <= k
  <2>1. CASE first = {}
    BY <2>1, FS_EmptySet
  <2>2. CASE first # {}
    <3> HIDE DEF first
    <3>1. PICK y \in first : \A x \in first : CreatedAt[y] <= CreatedAt[x]
      BY <1>0, <2>2, OldestExists
    <3>2. y \in ListOf(f) /\ y \in Checkin /\ Rank(y) < k
      BY <1>0 DEF first
    <3>3. first \in SUBSET (Before(y) \cup {y})
      <4> SUFFICES ASSUME NEW x \in first, x # y PROVE x \in Before(y)
        OBVIOUS
      <4>1. CreatedAt[x] \in Nat /\ CreatedAt[y] \in Nat /\ CreatedAt[y] <= CreatedAt[x]
        BY <1>0, <3>1, <3>2
      <4>2. CreatedAt[x] > CreatedAt[y]
        BY <1>0, <3>2, <4>1, RankTotal
      <4> QED  BY <1>0, <3>2, <4>2 DEF Before
    <3>4. /\ IsFiniteSet(Before(y) \cup {y})
          /\ Cardinality(Before(y) \cup {y}) = Rank(y) \/ Cardinality(Before(y) \cup {y}) = Rank(y) + 1
      BY <3>2, ListsFinite, FS_AddElement DEF Rank
    <3>5. Cardinality(first) <= Cardinality(Before(y) \cup {y})
      BY <3>3, <3>4, FS_Subset
    <3> QED  BY <1>0, <1>1, <3>2, <3>4, <3>5
  <2> QED  BY <2>1, <2>2
<1>3. ASSUME NEW c \in ListOf(f), Rank(c) >= k PROVE Cardinality(first) >= k
  <2> DEFINE T == {Rank(d) : d \in {e \in ListOf(f) : Rank(e) >= k}}
  <2>1. T \in SUBSET Nat /\ Rank(c) \in T
    BY <1>0, <1>3
  <2>2. PICK t \in T : \A r \in T : t <= r
    <3> HIDE DEF T
    <3> QED  BY <2>1, LeastNat
  <2>3. PICK x \in ListOf(f) : Rank(x) >= k /\ Rank(x) = t
    BY <2>2
  <2>4. Before(x) \in SUBSET first
    <3> SUFFICES ASSUME NEW d \in Before(x) PROVE d \in first
      OBVIOUS
    <3>1. d \in ListOf(f) /\ CreatedAt[x] < CreatedAt[d]
      BY <1>0, <2>3 DEF Before
    <3>2. Rank(d) < Rank(x) /\ Rank(d) \in Nat /\ Rank(x) \in Nat
      BY <1>0, <2>3, <3>1, RankOrder
    <3>3. ~ (Rank(d) >= k)
      BY <2>2, <2>3, <3>1, <3>2
    <3> QED  BY <3>1, <3>2, <3>3
  <2>5. Rank(x) <= Cardinality(first)
    <3> HIDE DEF first
    <3> QED  BY <1>1, <2>4, FS_Subset DEF Rank
  <2> QED  BY <1>0, <1>1, <2>3, <2>5
<1> HIDE DEF first
<1>4. (\E c \in ListOf(f) : Rank(c) >= k) => Cardinality(first) = k
  BY <1>1, <1>2, <1>3
<1> QED  BY <1>1, <1>2, <1>4 DEF first

\* A page before the place of some check-in is full.
LEMMA PageFull ==
  ASSUME IsFiniteSet(Listed), NEW f, NEW offset \in Nat, NEW c \in ListOf(f),
         Rank(c) >= offset + PageLimit
  PROVE  /\ Cardinality(Page(f, offset)) \in Nat
         /\ Cardinality(Page(f, offset)) >= PageLimit
<1> DEFINE low == {d \in ListOf(f) : Rank(d) < offset}
           high == {d \in ListOf(f) : Rank(d) < offset + PageLimit}
<1>1. offset + PageLimit \in Nat /\ PageLimit \in Nat
  BY BoundsAssumption
<1>2. IsFiniteSet(low) /\ Cardinality(low) \in Nat /\ Cardinality(low) <= offset
  BY FirstRanks
<1>3. IsFiniteSet(high) /\ Cardinality(high) = offset + PageLimit
  BY <1>1, FirstRanks
<1>4. \A d \in ListOf(f) : Rank(d) \in Nat
  BY ListsFinite DEF ListOf
<1>5. Page(f, offset) = high \ low /\ high \cap low = low
  BY <1>1, <1>4 DEF Page
<1> HIDE DEF low, high
<1>6. Cardinality(Page(f, offset)) = Cardinality(high) - Cardinality(low)
  BY <1>3, <1>5, FS_Difference
<1> QED  BY <1>1, <1>2, <1>3, <1>6

\* The walk does not end before a check-in of the window.
LEMMA WalkGoesOn ==
  ASSUME IsFiniteSet(Listed), NEW f, NEW offset \in Nat, NEW now \in Nat, NEW previous,
         NEW c \in ListOf(f), InWindow(now, c), Rank(c) >= offset + PageLimit
  PROVE  Then(Page(f, offset), now, offset, previous) # "end"
<1> DEFINE page == Page(f, offset)
<1>1. page \in SUBSET ListOf(f) /\ page \in SUBSET Checkin
  BY DEF Page, ListOf
<1>2. Cardinality(page) \in Nat /\ Cardinality(page) >= PageLimit /\ PageLimit \in Nat \ {0}
  BY PageFull, BoundsAssumption
<1>3. page # {}
  BY <1>2, FS_EmptySet
<1>4. PICK p \in page : Oldest(page) = CreatedAt[p]
  <2> HIDE DEF page
  <2> QED  BY <1>1, <1>3, OldestType
<1>5. /\ p \in ListOf(f) /\ p \in Checkin /\ c \in Checkin /\ Rank(p) \in Nat /\ Rank(c) \in Nat
      /\ CreatedAt[p] \in Nat /\ CreatedAt[c] \in Nat
  BY <1>1, ListsFinite, CheckinAssumption DEF ListOf
<1>6. Rank(p) < Rank(c)
  BY <1>4, <1>5, BoundsAssumption DEF Page
<1>7. p # c
  BY <1>5, <1>6
<1>8. CreatedAt[c] < CreatedAt[p]
  BY <1>5, <1>6, <1>7, RankOrder, RankTotal
<1>9. ~ (Oldest(page) < now - Lookback)
  BY <1>4, <1>5, <1>8, BoundsAssumption DEF InWindow
<1>10. ~ (Cardinality(page) < PageLimit)
  BY <1>2
<1> HIDE DEF page
<1>11. Then(page, now, offset, previous) # "end"
  BY <1>9, <1>10 DEF Then
<1> QED  BY <1>11 DEF page

-----------------------------------------------------------------------------
(* Every step keeps CoverInv *)

\* An upsert stores its check-in and deletes no other.
LEMMA UpsertStores ==
  ASSUME TypeOK, NEW c \in Checkin, NEW u \in User, NEW source \in {"push", "sync"},
         NEW r \in Rendering, Upsert(c, u, source, r)
  PROVE  /\ checkins'[c] # NoRow
         /\ \A d \in Checkin : checkins[d] # NoRow => checkins'[d] # NoRow
<1>1. checkins'[c] \in Row
  BY DEF TypeOK, Upsert, Row
<1>2. \A d \in Checkin \ {c} : checkins'[d] = checkins[d]
  BY DEF TypeOK, Upsert
<1> QED  BY <1>1, <1>2, NoneAssumption

\* A walk that does not move goes on covering what it promised, while rows are
\* added and the list only grows.
LEMMA CoveringKept ==
  ASSUME TypeOK, NEW s \in Syncer, Covering(s),
         sync'[s] = sync[s], promised'[s] = promised[s],
         \A c \in Checkin : checkins[c] # NoRow => checkins'[c] # NoRow,
         \A c \in promised[s] : /\ c \in ListOf(sync[s].account[2])'
                                /\ Rank(c) \in Nat /\ Rank(c)' \in Nat /\ Rank(c)' >= Rank(c),
         Walking(s)
  PROVE  Covering(s)'
<1>1. sync[s] \in Walk /\ promised[s] \subseteq Checkin
  BY Shape DEF Walking, TypeOK
<1>2. sync[s].seen \subseteq Checkin /\ sync[s].offset \in Nat /\ PageLimit \in Nat
  BY <1>1, BoundsAssumption DEF Walk
<1>3. \A c \in promised[s] : c \in ListOf(sync[s].account[2])' /\ InWindow(sync[s].now, c)
  BY DEF Covering
<1>4. \A c \in sync[s].seen : checkins'[c] # NoRow
  BY <1>2 DEF Covering
<1>5. ASSUME NEW c \in Missing(s)' PROVE Ahead(s, c)'
  <2>1. c \in promised[s] /\ c \in Missing(s)
    BY <1>1, <1>5 DEF Missing
  <2>2. Rank(c) \in Nat /\ Rank(c)' \in Nat /\ Rank(c)' >= Rank(c)
    BY <2>1
  <2>3. Ahead(s, c)
    BY <2>1 DEF Covering
  <2> QED  BY <1>2, <2>2, <2>3 DEF Ahead
<1> QED  BY <1>3, <1>4, <1>5 DEF Covering, InWindow

\* One that is removed moves those behind it up by one place, and no other.
LEMMA RankRemoved ==
  ASSUME IsFiniteSet(Listed), NEW x \in Checkin, listed[x] = "listed",
         \A c \in Checkin : listed'[c] = "listed" <=> listed[c] = "listed" /\ c # x,
         NEW d \in Checkin
  PROVE  /\ Rank(d) \in Nat /\ Rank(d)' \in Nat
         /\ x \in Before(d) => Rank(d)' = Rank(d) - 1
         /\ x \notin Before(d) => Rank(d)' = Rank(d)
<1>1. Before(d)' = Before(d) \ {x}
  BY DEF Before, ListOf
<1>2. IsFiniteSet(Before(d)) /\ Rank(d) \in Nat
  BY ListsFinite
<1>3. Cardinality(Before(d) \ {x}) = IF x \in Before(d) THEN Rank(d) - 1 ELSE Rank(d)
  BY <1>2, FS_RemoveElement DEF Rank
<1>4. Rank(d)' \in Nat
  <2>1. IsFiniteSet(Before(d) \ {x})
    BY <1>2, FS_RemoveElement
  <2> QED  BY <1>1, <2>1, FS_CardinalityType DEF Rank
<1>5. Rank(d)' = Cardinality(Before(d) \ {x})
  BY <1>1 DEF Rank
<1> QED  BY <1>2, <1>3, <1>4, <1>5

\* A walk covers what is left of its promises when a check-in of its list is
\* removed: of those it has not come to, only the next one moves to a place
\* it has passed.
LEMMA RemovalCovers ==
  ASSUME TypeOK, IsFiniteSet(Listed), NEW s \in Syncer, Walking(s), Covering(s),
         NEW x \in Checkin, sync[s].account[2] = Owner[x], UNCHANGED <<checkins, sync>>,
         promised'[s] =
           {d \in promised[s] \ {x} : ~ (x \in Before(d) /\ Rank(d) = NextOffset(s))},
         listed[x] = "listed",
         \A c \in Checkin : listed'[c] = "listed" <=> listed[c] = "listed" /\ c # x
  PROVE  Covering(s)'
<1>1. sync[s] \in Walk /\ promised[s] \subseteq Checkin
  BY Shape DEF Walking, TypeOK
<1>2. sync[s].offset \in Nat /\ PageLimit \in Nat
  BY <1>1, BoundsAssumption DEF Walk
<1>3. \A c \in promised'[s] : c \in ListOf(sync[s].account[2])' /\ InWindow(sync[s].now, c)
  BY DEF Covering, ListOf
<1>4. ASSUME NEW c \in Missing(s)' PROVE Ahead(s, c)'
  <2>1. /\ c \in Checkin /\ c \in Missing(s)
        /\ ~ (x \in Before(c) /\ Rank(c) = NextOffset(s))
    BY <1>1, <1>4 DEF Missing
  <2>2. Ahead(s, c)
    BY <2>1 DEF Covering
  <2>3. /\ Rank(c) \in Nat /\ Rank(c)' \in Nat
        /\ Rank(c)' = Rank(c) \/ (Rank(c)' = Rank(c) - 1 /\ Rank(c) # NextOffset(s))
    BY <2>1, RankRemoved
  <2>4. CASE sync[s].pc = "writing" /\ \E r \in Rendering : <<c, r>> \in sync[s].page
    BY <2>4 DEF Ahead
  <2>5. CASE sync[s].pc = "fetching" /\ Rank(c) >= sync[s].offset
    <3>1. NextOffset(s) = sync[s].offset
      BY <2>5 DEF NextOffset
    <3>2. Rank(c)' >= sync[s].offset
      BY <1>2, <2>3, <2>5, <3>1
    <3> QED  BY <2>5, <3>2 DEF Ahead
  <2>6. CASE /\ sync[s].pc = "writing" /\ sync[s].then # "end"
             /\ Rank(c) >= sync[s].offset + PageLimit
    <3>1. NextOffset(s) = sync[s].offset + PageLimit
      BY <2>6 DEF NextOffset
    <3>2. Rank(c)' >= sync[s].offset + PageLimit
      BY <1>2, <2>3, <2>6, <3>1
    <3> QED  BY <2>6, <3>2 DEF Ahead
  <2> QED  BY <2>2, <2>4, <2>5, <2>6 DEF Ahead
<1> QED  BY <1>3, <1>4 DEF Covering, InWindow

\* Check-ins are added to the list at any place: ranks only grow.  What is
\* removed lets those behind it slip by one place, which only the one that was
\* next cannot afford.
LEMMA EnvironmentCovers == TypeOK /\ CoverInv /\ Environment => CoverInv'
<1> SUFFICES ASSUME TypeOK, CoverInv, Environment PROVE CoverInv'
  OBVIOUS
<1>1. UNCHANGED <<checkins, sync>>
  BY DEF Environment, Tick, CheckIn, Edit, RemoveCheckin, LinkAccount, UnlinkAccount
<1>2. \A s \in Syncer : Walking(s)' = Walking(s)
  BY <1>1 DEF Walking
<1>3. \A s \in Syncer : promised[s] \subseteq Checkin
  BY DEF TypeOK
<1>4. CASE UNCHANGED <<listed, promised>>
  <2>1. \A c \in Checkin : Rank(c)' = Rank(c) /\ Rank(c) \in Nat
    BY <1>4, ListsFinite DEF CoverInv, Rank, Before, ListOf
  <2>2. Listed' = Listed /\ \A f : ListOf(f)' = ListOf(f)
    BY <1>4 DEF Listed, ListOf
  <2>3. ASSUME NEW s \in Syncer, Walking(s)' PROVE Covering(s)'
    <3>1. Covering(s) /\ Walking(s)
      BY <1>2, <2>3 DEF CoverInv
    <3> QED  BY <1>1, <1>3, <1>4, <2>1, <2>2, <3>1, CoveringKept DEF Covering
  <2> QED  BY <2>2, <2>3 DEF CoverInv
<1>5. ASSUME NEW x \in Checkin, CheckIn(x) PROVE CoverInv'
  <2>1. listed' = [listed EXCEPT ![x] = "listed"] /\ promised' = promised
    BY <1>5 DEF CheckIn, history
  <2>2. Listed' = Listed \cup {x}
    BY <2>1 DEF Listed, TypeOK
  <2>3. IsFiniteSet(Listed) /\ IsFiniteSet(Listed')
    BY <2>2, FS_AddElement DEF CoverInv
  <2>4. \A f : ListOf(f) \subseteq ListOf(f)'
    BY <2>1 DEF ListOf, TypeOK
  <2>5. ASSUME NEW c \in Checkin
        PROVE  Rank(c) \in Nat /\ Rank(c)' \in Nat /\ Rank(c)' >= Rank(c)
    <3>1. Before(c) \in SUBSET (Before(c)')
      BY <2>4 DEF Before
    <3>2. IsFiniteSet(Before(c)')
      <4>1. Before(c)' \in SUBSET (Listed')
        BY DEF Before, ListOf, Listed
      <4> QED  BY <2>3, <4>1, FS_Subset
    <3>3. Cardinality(Before(c)) <= Cardinality(Before(c)')
      BY <3>1, <3>2, FS_Subset
    <3>4. Cardinality(Before(c)') \in Nat /\ Rank(c) \in Nat
      BY <2>3, <3>2, FS_CardinalityType, ListsFinite
    <3> QED  BY <3>3, <3>4 DEF Rank
  <2>6. ASSUME NEW s \in Syncer, Walking(s)' PROVE Covering(s)'
    <3>1. Covering(s) /\ Walking(s)
      BY <1>2, <2>6 DEF CoverInv
    <3>2. \A c \in promised[s] : c \in ListOf(sync[s].account[2])'
      BY <1>1, <2>4, <3>1 DEF Covering
    <3> QED  BY <1>1, <1>3, <2>1, <2>5, <3>1, <3>2, CoveringKept
  <2> QED  BY <2>3, <2>6 DEF CoverInv
<1>6. ASSUME NEW x \in Checkin, RemoveCheckin(x) PROVE CoverInv'
  <2>1. /\ listed' = [listed EXCEPT ![x] = "removed"]
        /\ promised' = [s \in Syncer |->
             IF Walking(s) /\ sync[s].account[2] = Owner[x]
               THEN {d \in promised[s] \ {x} : ~ (x \in Before(d) /\ Rank(d) = NextOffset(s))}
               ELSE promised[s]]
    BY <1>6 DEF RemoveCheckin
  <2>2. IsFiniteSet(Listed) /\ IsFiniteSet(Listed')
    <3>1. Listed' \in SUBSET Listed
      BY <2>1 DEF Listed, TypeOK
    <3> QED  BY <3>1, FS_Subset DEF CoverInv
  <2>3. /\ listed[x] = "listed"
        /\ \A c \in Checkin : listed'[c] = "listed" <=> listed[c] = "listed" /\ c # x
    BY <1>6, <2>1 DEF RemoveCheckin, TypeOK
  <2>4. ASSUME NEW s \in Syncer, Walking(s)' PROVE Covering(s)'
    <3>1. Covering(s) /\ Walking(s)
      BY <1>2, <2>4 DEF CoverInv
    <3>2. CASE sync[s].account[2] = Owner[x]
      <4>1. promised'[s] =
              {d \in promised[s] \ {x} : ~ (x \in Before(d) /\ Rank(d) = NextOffset(s))}
        BY <2>1, <3>1, <3>2
      <4> QED  BY <1>1, <2>2, <2>3, <3>1, <3>2, <4>1, RemovalCovers
    <3>3. CASE sync[s].account[2] # Owner[x]
      <4>1. promised'[s] = promised[s]
        BY <2>1, <3>3
      <4>2. ListOf(sync[s].account[2])' = ListOf(sync[s].account[2])
        BY <1>1, <2>1, <3>3 DEF ListOf, TypeOK
      <4>3. \A c \in promised[s] : /\ c \in ListOf(sync[s].account[2])'
                                   /\ Owner[c] = sync[s].account[2] /\ c \in Checkin
        BY <3>1, <4>2 DEF Covering, ListOf
      <4>4. \A c \in promised[s] : Before(c)' = Before(c)
        BY <1>1, <4>2, <4>3 DEF Before
      <4>5. \A c \in promised[s] : Rank(c)' = Rank(c) /\ Rank(c) \in Nat
        BY <2>2, <4>3, <4>4, ListsFinite DEF Rank
      <4> QED  BY <1>1, <3>1, <4>1, <4>3, <4>5, CoveringKept
    <3> QED  BY <3>2, <3>3
  <2> QED  BY <2>2, <2>4 DEF CoverInv
<1> QED
  BY <1>4, <1>5, <1>6 DEF Environment, Tick, Edit, LinkAccount, UnlinkAccount, history, foursquare

\* While rows are only added and the list stays, a step of s leaves every other
\* walk as it was.
LEMMA OthersCover ==
  ASSUME TypeOK, CoverInv, NEW s, UNCHANGED listed,
         \A r \in Syncer \ {s} : sync'[r] = sync[r] /\ promised'[r] = promised[r],
         \A c \in Checkin : checkins[c] # NoRow => checkins'[c] # NoRow,
         s \in Syncer /\ Walking(s)' => Covering(s)'
  PROVE  CoverInv'
<1>1. \A c \in Checkin : Rank(c)' = Rank(c) /\ Rank(c) \in Nat
  BY ListsFinite DEF CoverInv, Rank, Before, ListOf
<1>2. Listed' = Listed /\ \A f : ListOf(f)' = ListOf(f)
  BY DEF Listed, ListOf
<1>3. ASSUME NEW r \in Syncer \ {s}, Walking(r)' PROVE Covering(r)'
  <2>1. Covering(r) /\ Walking(r) /\ promised[r] \subseteq Checkin
    BY <1>3 DEF CoverInv, Walking, TypeOK
  <2>2. sync'[r] = sync[r] /\ promised'[r] = promised[r]
    OBVIOUS
  <2>3. \A c \in promised[r] : c \in ListOf(sync[r].account[2])'
    BY <1>2, <2>1 DEF Covering
  <2> QED  BY <1>1, <2>1, <2>2, <2>3, CoveringKept
<1> QED  BY <1>2, <1>3 DEF CoverInv

\* A push only ever adds a row or replaces one.
LEMMA WebhookCovers ==
  ASSUME TypeOK, CoverInv, NEW h \in Handler, foursquareWebhook(h)
  PROVE  CoverInv'
<1>1. UNCHANGED <<listed, sync, promised>>
  BY DEF foursquareWebhook, StorePush, FailPush, Resolve, history, foursquare
<1>2. \A c \in Checkin : checkins[c] # NoRow => checkins'[c] # NoRow
  <2>1. CASE StorePush(h)
    <3>1. push[h][1] \in Checkin /\ push[h][2] \in User /\ 0 \in Rendering
      BY <2>1, Counting DEF StorePush, TypeOK
    <3> QED  BY <2>1, <3>1, UpsertStores DEF StorePush
  <2>2. CASE UNCHANGED checkins
    BY <2>2
  <2> QED  BY <2>1, <2>2 DEF foursquareWebhook, FailPush, Resolve
<1>3. \E s : s \notin Syncer
  BY NoSetContainsEverything
<1> QED  BY <1>1, <1>2, <1>3, OthersCover

\* Where a run is in no walk it has nothing to cover.
LEMMA NoWalkCovers ==
  ASSUME TypeOK, CoverInv, NEW s \in Syncer, UNCHANGED <<listed, checkins, promised>>,
         NEW w, sync' = [sync EXCEPT ![s] = w],
         w.pc \notin {"fetching", "writing", "walked"}
  PROVE  CoverInv'
<1>1. sync'[s] = w /\ \A r \in Syncer \ {s} : sync'[r] = sync[r]
  BY DEF TypeOK
<1>2. ~ Walking(s)'
  BY <1>1 DEF Walking
<1> QED  BY <1>1, <1>2, OthersCover

\* A page that was fetched holds what the walk has promised of its places, and
\* unless the list was read on to that place, the walk goes on.
LEMMA FetchCovers ==
  ASSUME TypeOK, CoverInv, NEW s \in Syncer, FetchPage(s)
  PROVE  CoverInv'
<1> DEFINE f == sync[s].account[2]
           page == Page(f, sync[s].offset)
           new == {c \in page : InWindow(sync[s].now, c)} \ sync[s].seen
           then == Then(page, sync[s].now, sync[s].offset, sync[s].previous)
<1>1. /\ sync[s] \in Walk /\ sync[s].pc = "fetching" /\ Walking(s) /\ Covering(s)
      /\ UNCHANGED <<listed, checkins, promised, edits>>
  BY Shape DEF FetchPage, Walking, CoverInv, history, foursquare
<1>2. sync' = [sync EXCEPT ![s] = [sync[s] EXCEPT
         !.pc = "writing", !.page = {<<c, edits[c]>> : c \in new}, !.oldest = Oldest(page),
         !.then = then]]
  BY Zenon DEF FetchPage
<1>3. /\ sync'[s].pc = "writing" /\ sync'[s].page = {<<c, edits[c]>> : c \in new}
      /\ sync'[s].then = then /\ sync'[s].account = sync[s].account
      /\ sync'[s].now = sync[s].now /\ sync'[s].seen = sync[s].seen
      /\ sync'[s].offset = sync[s].offset
      /\ \A r \in Syncer \ {s} : sync'[r] = sync[r]
  <2> HIDE DEF new, then, page
  <2> QED  BY <1>1, <1>2 DEF TypeOK, Walk
<1>4. sync[s].offset \in Nat /\ sync[s].now \in Nat /\ PageLimit \in Nat /\ sync[s].seen \subseteq Checkin
  BY <1>1, BoundsAssumption DEF Walk
<1>5. IsFiniteSet(Listed)
  BY DEF CoverInv
<1>6. \A g : ListOf(g)' = ListOf(g)
  BY <1>1 DEF ListOf
<1>7. \A c \in Checkin : Rank(c)' = Rank(c) /\ Rank(c) \in Nat
  BY <1>1, <1>5, ListsFinite DEF Rank, Before, ListOf
<1>8. ASSUME NEW c \in Missing(s) PROVE Ahead(s, c)'
  <2>1. /\ c \in ListOf(f) /\ c \in Checkin /\ InWindow(sync[s].now, c)
        /\ Rank(c) >= sync[s].offset /\ c \notin sync[s].seen
    BY <1>1, <1>8 DEF Covering, Missing, Ahead, ListOf
  <2>2. CASE Rank(c) >= sync[s].offset + PageLimit
    <3>1. then # "end"
      BY <1>4, <1>5, <2>1, <2>2, WalkGoesOn
    <3> QED  BY <1>3, <1>7, <2>1, <2>2, <3>1 DEF Ahead
  <2>3. CASE ~ (Rank(c) >= sync[s].offset + PageLimit)
    <3>1. Rank(c) \in sync[s].offset .. sync[s].offset + PageLimit - 1
      BY <1>4, <1>7, <2>1, <2>3
    <3>2. c \in page
      BY <2>1, <3>1 DEF Page
    <3>3. c \in new
      BY <2>1, <3>2
    <3>4. <<c, edits[c]>> \in sync'[s].page /\ edits[c] \in Rendering
      BY <1>3, <2>1, <3>3 DEF TypeOK
    <3> QED  BY <1>3, <3>4 DEF Ahead
  <2> QED  BY <2>2, <2>3
<1>9. Covering(s)'
  <2>1. Missing(s)' = Missing(s)
    BY <1>1 DEF Missing
  <2>2. \A c \in promised'[s] : c \in ListOf(sync[s].account[2])' /\ InWindow(sync'[s].now, c)
    BY <1>1, <1>3, <1>6 DEF Covering
  <2> QED  BY <1>1, <1>3, <1>4, <1>8, <2>1, <2>2 DEF Covering, InWindow
<1> QED  BY <1>1, <1>3, <1>9, OthersCover

\* What is written is stored, and nothing else leaves the page.
LEMMA WriteCovers ==
  ASSUME TypeOK, CoverInv, NEW s \in Syncer, NEW x \in Checkin, WriteFetched(s, x)
  PROVE  CoverInv'
<1>1. /\ sync[s] \in Walk /\ sync[s].pc = "writing" /\ Walking(s) /\ Covering(s)
      /\ UNCHANGED <<listed, promised>>
  BY Shape DEF WriteFetched, Walking, CoverInv, history, foursquare
<1>2. PICK q \in Rendering :
        /\ <<x, q>> \in sync[s].page
        /\ Upsert(x, sync[s].account[1], "sync", q)
        /\ sync' = [sync EXCEPT ![s].page = @ \ {<<x, q>>}, ![s].seen = @ \cup {x}]
  BY DEF WriteFetched
<1>3. /\ sync'[s].pc = "writing" /\ sync'[s].page = sync[s].page \ {<<x, q>>}
      /\ sync'[s].seen = sync[s].seen \cup {x} /\ sync'[s].then = sync[s].then
      /\ sync'[s].account = sync[s].account /\ sync'[s].now = sync[s].now
      /\ sync'[s].offset = sync[s].offset
      /\ \A r \in Syncer \ {s} : sync'[r] = sync[r]
  BY <1>1, <1>2 DEF TypeOK, Walk
<1>4. checkins'[x] # NoRow /\ \A c \in Checkin : checkins[c] # NoRow => checkins'[c] # NoRow
  BY <1>1, <1>2, UpsertStores DEF Walk, Link
<1>5. /\ \A g : ListOf(g)' = ListOf(g)
      /\ \A c \in Checkin : Rank(c)' = Rank(c)
      /\ promised[s] \subseteq Checkin /\ sync[s].seen \subseteq Checkin
  BY <1>1 DEF Rank, Before, ListOf, TypeOK, Walk
<1>6. ASSUME NEW c \in Missing(s)' PROVE Ahead(s, c)'
  <2>1. c \in Missing(s) /\ c # x /\ c \in Checkin
    BY <1>1, <1>4, <1>5, <1>6 DEF Missing
  <2>2. Ahead(s, c)
    BY <1>1, <2>1 DEF Covering
  <2>3. \A r \in Rendering : <<c, r>> \in sync[s].page => <<c, r>> \in sync'[s].page
    BY <1>3, <2>1
  <2> QED  BY <1>1, <1>3, <1>5, <2>1, <2>2, <2>3 DEF Ahead
<1>7. Covering(s)'
  <2>1. \A c \in promised'[s] : c \in ListOf(sync[s].account[2])' /\ InWindow(sync'[s].now, c)
    BY <1>1, <1>3, <1>5 DEF Covering
  <2>2. \A c \in sync'[s].seen : checkins'[c] # NoRow
    BY <1>1, <1>3, <1>4, <1>5 DEF Covering
  <2> QED  BY <1>3, <1>6, <2>1, <2>2 DEF Covering, InWindow
<1> QED  BY <1>1, <1>3, <1>4, <1>7, OthersCover

\* When a page is written, the next one begins where it ended.
LEMMA NextPageCovers ==
  ASSUME TypeOK, CoverInv, NEW s \in Syncer, PageWritten(s)
  PROVE  CoverInv'
<1>1. /\ sync[s] \in Walk /\ sync[s].pc = "writing" /\ sync[s].page = {} /\ Walking(s) /\ Covering(s)
      /\ UNCHANGED <<listed, checkins, promised>>
  BY Shape DEF PageWritten, Walking, CoverInv, history, foursquare
<1>2. sync' = [sync EXCEPT ![s] = [sync[s] EXCEPT
         !.pc = IF sync[s].then = "end" THEN "walked" ELSE "fetching",
         !.offset = sync[s].offset + PageLimit, !.previous = sync[s].oldest]]
  BY Zenon DEF PageWritten
<1>3. /\ sync'[s].pc = (IF sync[s].then = "end" THEN "walked" ELSE "fetching")
      /\ sync'[s].offset = sync[s].offset + PageLimit
      /\ sync'[s].account = sync[s].account /\ sync'[s].now = sync[s].now
      /\ sync'[s].seen = sync[s].seen
      /\ \A r \in Syncer \ {s} : sync'[r] = sync[r]
  BY <1>1, <1>2 DEF TypeOK, Walk
<1>4. /\ \A g : ListOf(g)' = ListOf(g)
      /\ \A c \in Checkin : Rank(c)' = Rank(c)
      /\ promised[s] \subseteq Checkin
  BY <1>1 DEF Rank, Before, ListOf, TypeOK
<1>5. ASSUME NEW c \in Missing(s) PROVE Ahead(s, c)'
  <2>1. Ahead(s, c) /\ c \in Checkin
    BY <1>1, <1>4, <1>5 DEF Covering, Missing
  <2>2. sync[s].then # "end" /\ Rank(c) >= sync[s].offset + PageLimit
    BY <1>1, <2>1 DEF Ahead
  <2> QED  BY <1>3, <1>4, <2>1, <2>2 DEF Ahead
<1>6. Covering(s)'
  <2>1. Missing(s)' = Missing(s)
    BY <1>1 DEF Missing
  <2>2. \A c \in promised'[s] : c \in ListOf(sync[s].account[2])' /\ InWindow(sync'[s].now, c)
    BY <1>1, <1>3, <1>4 DEF Covering
  <2> QED  BY <1>1, <1>3, <1>5, <2>1, <2>2 DEF Covering, InWindow
<1> QED  BY <1>1, <1>3, <1>6, OthersCover

\* A walk that begins is to store all that its window holds.
LEMMA StartCovers ==
  ASSUME TypeOK, CoverInv, NEW s \in Syncer, NEW link \in Link, StartWalk(s, link)
  PROVE  CoverInv'
<1> DEFINE w == [pc |-> "fetching", accounts |-> sync[s].accounts \ {link}, account |-> link,
                 now |-> clock, offset |-> 0, previous |-> Never, seen |-> {}, page |-> {},
                 oldest |-> Never, then |-> "next"]
           wanted == {c \in ListOf(link[2]) : InWindow(clock, c)}
<1>1. UNCHANGED <<listed, checkins>> /\ sync' = [sync EXCEPT ![s] = w]
      /\ promised' = [promised EXCEPT ![s] = wanted]
  BY DEF StartWalk, foursquare
<1>2. /\ w.pc = "fetching" /\ w.account = link /\ w.now = clock /\ w.offset = 0 /\ w.seen = {}
      /\ wanted \subseteq Checkin
  BY DEF ListOf
<1>3. /\ sync'[s] = w /\ promised'[s] = wanted
      /\ \A r \in Syncer \ {s} : sync'[r] = sync[r] /\ promised'[r] = promised[r]
  BY <1>1 DEF TypeOK
<1>4. \A c \in Checkin : Rank(c)' = Rank(c) /\ Rank(c) \in Nat
  BY <1>1, ListsFinite DEF CoverInv, Rank, Before, ListOf
<1>5. \A c \in wanted : c \in ListOf(link[2])' /\ InWindow(clock, c)
  BY <1>1 DEF ListOf
<1> HIDE DEF w, wanted
<1>6. \A c \in promised'[s] : Ahead(s, c)'
  BY <1>2, <1>3, <1>4 DEF Ahead
<1>7. Covering(s)'
  BY <1>2, <1>3, <1>5, <1>6 DEF Covering, Missing, InWindow
<1> QED  BY <1>1, <1>3, <1>7, OthersCover

\* Every step of a run keeps the promises of all.
LEMMA SyncCovers ==
  ASSUME TypeOK, CoverInv, NEW s \in Syncer,
         SyncStep(s) \/ StartServer(s) \/ foursquareSync(s) \/ Fail(s) \/ Stop(s)
  PROVE  CoverInv'
<1> USE DEF history, foursquare
<1>1. ASSUME StartServer(s) \/ Stop(s) \/ EndRun(s) PROVE CoverInv'
  <2>1. /\ UNCHANGED <<listed, checkins, promised>>
        /\ \E pc \in {"stopped", "idle"} : sync' = [sync EXCEPT ![s] = At(pc)]
    BY <1>1 DEF StartServer, Stop, EndRun
  <2>2. \A pc \in {"stopped", "idle"} : At(pc).pc \notin {"fetching", "writing", "walked"}
    BY DEF At
  <2> QED  BY <2>1, <2>2, NoWalkCovers
<1>2. ASSUME Begin(s) \/ foursquareSync(s) PROVE CoverInv'
  <2>1. /\ UNCHANGED <<listed, checkins, promised>>
        /\ sync' = [sync EXCEPT ![s] = [pc |-> "between", accounts |-> All]]
    BY <1>2 DEF Begin, foursquareSync, ListAccounts
  <2> QED  BY <2>1, NoWalkCovers
<1>3. ASSUME Stuck(s) \/ LogError(s) \/ Record(s) PROVE CoverInv'
  <2>1. /\ UNCHANGED <<listed, checkins, promised>>
        /\ sync' = [sync EXCEPT ![s] = [pc |-> "between", accounts |-> sync[s].accounts]]
    BY <1>3 DEF Stuck, LogError, Record, NextAccount
  <2> QED  BY <2>1, NoWalkCovers
<1>4. ASSUME Fail(s) PROVE CoverInv'
  <2>1. sync[s] \in Walk /\ UNCHANGED <<listed, checkins, promised>>
    BY <1>4, Shape DEF Fail
  <2>2. sync' = [sync EXCEPT ![s] = [sync[s] EXCEPT !.pc = "failed"]]
    BY <1>4, Zenon DEF Fail
  <2>3. [sync[s] EXCEPT !.pc = "failed"].pc = "failed"
    BY <2>1 DEF Walk
  <2> QED  BY <2>1, <2>2, <2>3, NoWalkCovers
<1>5. ASSUME NEW link \in Link, StartWalk(s, link) PROVE CoverInv'
  BY <1>5, StartCovers
<1>6. ASSUME NEW c \in Checkin, WriteFetched(s, c) PROVE CoverInv'
  BY <1>6, WriteCovers
<1>7. ASSUME FetchPage(s) \/ PageWritten(s) PROVE CoverInv'
  BY <1>7, FetchCovers, NextPageCovers
<1> QED  BY <1>1, <1>2, <1>3, <1>4, <1>5, <1>6, <1>7 DEF SyncStep

\* A walk that succeeded stored every check-in its window held when it began,
\* but for those removed meanwhile and at most one other for each of them: pages
\* that shift because others arrive, edits, pushes and other runs writing the
\* same rows cost it none.
THEOREM WalkAlwaysCovers == Spec => []WalkCovers
<1>1. Init => CoverInv
  <2> SUFFICES ASSUME Init PROVE CoverInv
    OBVIOUS
  <2>1. Listed = {}
    BY DEF Init, Listed
  <2>2. \A s \in Syncer : ~ Walking(s)
    BY DEF Init, Walking, At
  <2> QED  BY <2>1, <2>2, FS_EmptySet DEF CoverInv
<1>2. TypeOK /\ CoverInv /\ [Next]_vars => CoverInv'
  <2> SUFFICES ASSUME TypeOK, CoverInv, [Next]_vars PROVE CoverInv'
    OBVIOUS
  <2>1. CASE Environment
    BY <2>1, EnvironmentCovers
  <2>2. ASSUME NEW h \in Handler, foursquareWebhook(h) PROVE CoverInv'
    BY <2>2, WebhookCovers
  <2>3. ASSUME NEW s \in Syncer, SyncStep(s) \/ StartServer(s) \/ foursquareSync(s) \/ Fail(s) \/ Stop(s) PROVE CoverInv'
    BY <2>3, SyncCovers
  <2>4. CASE UNCHANGED vars
    <3>1. UNCHANGED <<listed, checkins, sync, promised>>
      BY <2>4 DEF vars, foursquare, history
    <3>2. \E s : s \notin Syncer
      BY NoSetContainsEverything
    <3> QED  BY <3>1, <3>2, OthersCover
  <2> QED  BY <2>1, <2>2, <2>3, <2>4 DEF Next
<1>3. CoverInv => WalkCovers
  BY DEF CoverInv, WalkCovers, Walking, Covering, Missing, Ahead
<1> QED  BY <1>1, <1>2, <1>3, TypeCorrect, PTL DEF Spec

=============================================================================
