------------------------------ MODULE AccountLink ------------------------------
(***************************************************************************)
(* How a user links a Swarm account: the server sends the browser to       *)
(* Foursquare with a state it minted for the user, and Foursquare sends it *)
(* back to the callback with that state and a code.  The states live in    *)
(* the memory of the server.  The callback takes several steps, two of     *)
(* them requests to Foursquare, while the browser is free to sign in as    *)
(* somebody else, to come back again, or to start anew.                    *)
(*                                                                         *)
(* Sessions are those of SessionLife: who a browser is signed in as        *)
(* changes at any time.  A code and the access token it is exchanged for   *)
(* stand for the Swarm account that allowed the link.                      *)
(***************************************************************************)
EXTENDS Accounts

CONSTANTS
  Browser,
  Callback,        \* requests to the callback that may be under way
  State,           \* the states there are to mint, a bound
  StateLifetime,   \* oauthStateLifetime
  MaxClock,        \* bound on the time that passes
  Nobody,          \* the browser is signed out
  Refused,         \* a return without a code
  None             \* no state entry, no flow, no callback

ASSUME TimeAssumption == StateLifetime \in Nat /\ MaxClock \in Nat
ASSUME NoneAssumption == Nobody \notin User /\ Refused \notin FoursquareUser

Code == FoursquareUser \cup {Refused}
Entry == [user : User, expiry : Int]
Flow == [user : User, browser : Browser, minted : Int, codes : SUBSET Code]

\* A request that is let through is of a user and has a code.
Returned ==
  [pc : {"loaded"}, user : User \cup {Nobody}, state : State, code : Code, consumed : Int]
    \cup
  [pc : {"identifying", "creating"}, user : User, state : State, code : FoursquareUser,
   consumed : Int]

ASSUME EntryAssumption == None \notin Entry \cup Flow \cup Returned

VARIABLES
  clock,
  signedIn,        \* signedIn[b]: the user of the session of browser b
  states,          \* states[s]: the entry of s in memory, or None
  flow,            \* flow[s]: what s was minted for and the codes Foursquare
                   \* sent back with it, or None
  callback,        \* callback[c]: where request c is, or None
  links,           \* history: the links that were made, and from which state
  lastMint         \* history: when the last state was minted

vars == <<accounts, clock, signedIn, states, flow, callback, links, lastMint>>

TypeOK ==
  /\ AccountsType
  /\ clock \in 0 .. MaxClock /\ lastMint \in 0 .. clock
  /\ signedIn \in [Browser -> User \cup {Nobody}]
  /\ states \in [State -> Entry \cup {None}]
  /\ flow \in [State -> Flow \cup {None}]
  /\ callback \in [Callback -> Returned \cup {None}]
  /\ links \subseteq [user : User, foursquare : FoursquareUser, state : State, consumed : Int]

Init ==
  /\ AccountsInit
  /\ clock = 0 /\ lastMint = 0
  /\ signedIn = [b \in Browser |-> Nobody]
  /\ states = [s \in State |-> None]
  /\ flow = [s \in State |-> None]
  /\ callback = [c \in Callback |-> None]
  /\ links = {}

-----------------------------------------------------------------------------
(* oauthstate.go *)

Expired(s) == states[s] # None /\ clock > states[s].expiry

\* Mutant: nothing is pruned.
PruneNothing == states

prune == [s \in State |-> IF Expired(s) THEN None ELSE states[s]]

\* New, which prunes first.
New(s, u) == states' = [prune EXCEPT ![s] = [user |-> u, expiry |-> clock + StateLifetime]]

\* Mutant: a state is good for ever.
ConsumableAlways(s) == states[s] # None

Consumable(s) == states[s] # None /\ ~ Expired(s)

\* Mutant: the entry stays until it is pruned.
ConsumedStays(s) == states

\* Consume removes the entry, also of a state that turns out to be expired.
Consumed(s) == [states EXCEPT ![s] = None]

-----------------------------------------------------------------------------
(* The browser, its sessions, and Foursquare *)

SignIn(b, u) ==
  /\ signedIn[b] # u
  /\ signedIn' = [signedIn EXCEPT ![b] = u]
  /\ UNCHANGED <<accounts, clock, states, flow, callback, links, lastMint>>

Tick ==
  /\ clock < MaxClock
  /\ clock' = clock + 1
  /\ UNCHANGED <<accounts, signedIn, states, flow, callback, links, lastMint>>

\* The person at the browser lets Foursquare link a Swarm account of theirs, or
\* does not.  They may go back and decide again.
Authorize(s, code) ==
  /\ flow[s] # None /\ code \notin flow[s].codes
  /\ flow' = [flow EXCEPT ![s].codes = @ \cup {code}]
  /\ UNCHANGED <<accounts, clock, signedIn, states, callback, links, lastMint>>

-----------------------------------------------------------------------------
(* foursquare.go and settings_page.go *)

\* GET /settings/foursquare/connect.
foursquareOAuthStart(b, s) ==
  /\ signedIn[b] # Nobody /\ flow[s] = None
  /\ New(s, signedIn[b])
  /\ flow' = [flow EXCEPT ![s] =
       [user |-> signedIn[b], browser |-> b, minted |-> clock, codes |-> {}]]
  /\ lastMint' = clock
  /\ UNCHANGED <<accounts, clock, signedIn, callback, links>>

\* POST /settings/foursquare/disconnect.
foursquareDisconnect(b) ==
  /\ signedIn[b] # Nobody /\ Linked(signedIn[b])
  /\ Disconnect(signedIn[b])
  /\ UNCHANGED <<clock, signedIn, states, flow, callback, links, lastMint>>

\* The browser follows the redirect back, possibly more than once.  Its session
\* is loaded before the handler runs.
Return(c, s, code) ==
  /\ callback[c] = None /\ flow[s] # None /\ code \in flow[s].codes
  /\ callback' = [callback EXCEPT ![c] =
       [pc |-> "loaded", user |-> signedIn[flow[s].browser], state |-> s, code |-> code,
        consumed |-> 0]]
  /\ UNCHANGED <<accounts, clock, signedIn, states, flow, links, lastMint>>

\* Mutant: a callback that comes without a session is let through.
RightUserOrNone(c) == callback[c].user \in {Nobody, states[callback[c].state].user}

\* Mutant: any signed-in user will do.
RightUserAny(c) == callback[c].user # Nobody

\* The session is of the user the state was minted for.
RightUser(c) == callback[c].user = states[callback[c].state].user

\* foursquareOAuthCallback, up to the exchange of the code.  A refusal, 403 or
\* 400, has consumed the state too.
foursquareOAuthCallback(c) ==
  /\ callback[c] # None /\ callback[c].pc = "loaded"
  /\ LET s == callback[c].state
     IN  /\ states' = Consumed(s)
         /\ callback' =
              IF Consumable(s) /\ RightUser(c) /\ callback[c].code # Refused
              THEN [callback EXCEPT ![c].pc = "identifying", ![c].consumed = clock]
              ELSE [callback EXCEPT ![c] = None]
  /\ UNCHANGED <<accounts, clock, signedIn, flow, links, lastMint>>

\* ExchangeCode and GetSelfUserID: Foursquare answers with an access token, and
\* whose it is.
Identify(c) ==
  /\ callback[c] # None /\ callback[c].pc = "identifying"
  /\ callback' = [callback EXCEPT ![c].pc = "creating"]
  /\ UNCHANGED <<accounts, clock, signedIn, states, flow, links, lastMint>>

Created(c) ==
  links \cup {[user |-> callback[c].user, foursquare |-> callback[c].code,
               state |-> callback[c].state, consumed |-> callback[c].consumed]}

\* Mutant: a conflicting row is replaced.
CreateAccountUpsert(c) ==
  /\ callback[c] # None /\ callback[c].pc = "creating"
  /\ accounts' = [u \in User |->
       IF u = callback[c].user THEN [foursquare |-> callback[c].code, synced |-> Never]
       ELSE IF u \in ByFoursquareUserID(callback[c].code) THEN Unlinked ELSE accounts[u]]
  /\ links' = Created(c)
  /\ callback' = [callback EXCEPT ![c] = None]
  /\ UNCHANGED <<clock, signedIn, states, flow, lastMint>>

\* The account is stored.  Where the user has one, or somebody else has it, this
\* is a conflict, 409, and nothing is: Abandon.
CreateAccount(c) ==
  /\ callback[c] # None /\ callback[c].pc = "creating"
  /\ Create(callback[c].user, callback[c].code)
  /\ links' = Created(c)
  /\ callback' = [callback EXCEPT ![c] = None]
  /\ UNCHANGED <<clock, signedIn, states, flow, lastMint>>

\* A request to Foursquare fails or takes longer than foursquareHTTPTimeout, the
\* store refuses, or the browser goes away.
Abandon(c) ==
  /\ callback[c] # None /\ callback[c].pc # "loaded"
  /\ callback' = [callback EXCEPT ![c] = None]
  /\ UNCHANGED <<accounts, clock, signedIn, states, flow, links, lastMint>>

\* The server stops, or dies, and comes back: the states are lost.
Restart ==
  /\ states' = [s \in State |-> None]
  /\ callback' = [c \in Callback |-> None]
  /\ UNCHANGED <<accounts, clock, signedIn, flow, links, lastMint>>

-----------------------------------------------------------------------------

Next ==
  \/ Tick \/ Restart
  \/ \E b \in Browser :
       \/ foursquareDisconnect(b)
       \/ \E u \in User \cup {Nobody} : SignIn(b, u)
       \/ \E s \in State : foursquareOAuthStart(b, s)
  \/ \E s \in State, code \in Code :
       Authorize(s, code) \/ \E c \in Callback : Return(c, s, code)
  \/ \E c \in Callback :
       foursquareOAuthCallback(c) \/ Identify(c) \/ CreateAccount(c) \/ Abandon(c)

Spec == Init /\ [][Next]_vars

-----------------------------------------------------------------------------

\* Whoever is signed in where the browser comes back to: an account is linked to
\* a user who asked for it, to one that was allowed in answer to that very
\* request, and in time.
LinkedAsStarted ==
  /\ \A link \in links :
       /\ flow[link.state].user = link.user
       /\ link.foursquare \in flow[link.state].codes
       /\ link.consumed <= flow[link.state].minted + StateLifetime
  /\ \A u \in User : Linked(u) =>
       \E link \in links : link.user = u /\ link.foursquare = accounts[u].foursquare

\* "A second callback presenting the same state, replayed or otherwise, finds
\* nothing": a state makes one link, also if that was undone since.
OneLinkPerState ==
  [][\A link \in links' \ links : \A other \in links : other.state # link.state]_vars

\* "A state nobody ever completes does not accumulate": what is in memory was
\* good when the last state was minted.
AbandonedStatesGo ==
  \A s \in State : states[s] # None => lastMint <= states[s].expiry

\* One user at most is linked to a Swarm account, which a push of it is stored
\* for.
OneOwner ==
  \A u, v \in User : Linked(u) /\ Linked(v) /\ accounts[u].foursquare = accounts[v].foursquare
                       => u = v

\* Of callbacks that race to link one Swarm account, or one user to two, the one
\* that stores first wins: what it stored is neither replaced nor shared by those
\* that were let through beside it, and goes only when its own user disconnects.
FirstLinkStands ==
  /\ []OneOwner
  /\ [][\A u \in User : Linked(u) /\ accounts'[u] # accounts[u] =>
          /\ accounts'[u] = Unlinked /\ links' = links
          /\ \E b \in Browser : signedIn[b] = u]_vars

=============================================================================
