------------------------------- MODULE Sessions -------------------------------
(***************************************************************************)
(* Browser sessions: the middleware that loads the session a cookie names, *)
(* the requests that sign up, in and out, the table of sessions and the    *)
(* sweep of those that expired.  A request takes several statements, and   *)
(* others of the same browser come between them.                           *)
(*                                                                         *)
(* The session manager, scs, is a library: of it there is what the server  *)
(* uses.  It reads the row when a request begins, and writes the row and   *)
(* the cookie when the response begins, if the session was modified.  A    *)
(* token is random and stands for the digest that keys its row.            *)
(***************************************************************************)
EXTENDS Integers

CONSTANTS
  User,            \* accounts: an address, its password and its API key
  Browser,
  Request,         \* requests that may be under way at the same time
  Token,           \* the tokens there are to mint, a bound
  Lifetime,        \* session.lifetime
  MaxClock,        \* bound on the time that passes
  Nobody,          \* no user
  NoToken,         \* no cookie, or a session that has no row
  NoRow,           \* the token has no row
  Unused, Ended    \* see SessionLife

ASSUME LifetimeAssumption == Lifetime \in Nat /\ MaxClock \in Nat
ASSUME NoneAssumption == Nobody \notin User /\ NoToken \notin Token

Row == [user : User, expiry : Int]

ASSUME RowAssumption ==
  NoRow \notin Row /\ Unused \notin Row /\ Ended \notin Row /\ Unused # Ended

VARIABLES
  clock,
  server,          \* "stopped", "serving", or "draining" once it was told to stop
  sweeping,        \* whether its sweepExpiredSessions does
  users,           \* the users table
  sessions,        \* sessions[t]: the row of t, or NoRow
  cookie,          \* cookie[b]: the token browser b holds, or NoToken
  request,         \* request[q]: where request q is and the session it carries
  minted,          \* tokens that were generated
  granted,         \* history: granted[t]: whose password or sign-up led to t
  committed        \* history: tokens that had a row

history == <<granted, committed>>
vars == <<clock, server, sweeping, users, sessions, cookie, request, minted, history>>

-----------------------------------------------------------------------------
(* What a request carries: its session, [token, value], and the user it is     *)
(* served as.  value is what the session holds under user_id.                  *)

Carried ==
  [pc : {"loaded", "serving", "verified", "renewed", "answered"},
   browser : Browser, token : Token \cup {NoToken}, value : User \cup {Nobody},
   user : User \cup {Nobody}, expiry : Int, replaced : Token \cup {NoToken}]

\* A slot without a request, which is no browser's in particular.
IdleRequest == [pc |-> "idle"]

TypeOK ==
  /\ clock \in 0 .. MaxClock
  /\ server \in {"stopped", "serving", "draining"} /\ sweeping \in BOOLEAN
  /\ users \subseteq User
  /\ sessions \in [Token -> Row \cup {NoRow}]
  /\ cookie \in [Browser -> Token \cup {NoToken}]
  /\ request \in [Request -> Carried \cup {IdleRequest}]
  /\ minted \subseteq Token /\ committed \subseteq minted
  /\ granted \in [Token -> User \cup {Nobody}]

Init ==
  /\ clock = 0
  /\ server = "stopped" /\ sweeping = FALSE
  /\ users = {}
  /\ sessions = [t \in Token |-> NoRow]
  /\ cookie = [b \in Browser |-> NoToken]
  /\ request = [q \in Request |-> IdleRequest]
  /\ minted = {} /\ committed = {}
  /\ granted = [t \in Token |-> Nobody]

-----------------------------------------------------------------------------
(* internal/store/sqlite/sessions.go *)

\* ByToken finds a row that is good beyond now.
ByToken(t) == t \in Token /\ sessions[t] # NoRow /\ sessions[t].expiry > clock

Delete(t) == [s \in Token |-> IF s = t THEN NoRow ELSE sessions[s]]

\* Mutant: sessions go a second early.
DeleteExpiredEarly ==
  [t \in Token |-> IF sessions[t] # NoRow /\ sessions[t].expiry <= clock + 1 THEN NoRow
                   ELSE sessions[t]]

DeleteExpired ==
  [t \in Token |-> IF sessions[t] # NoRow /\ sessions[t].expiry <= clock THEN NoRow
                   ELSE sessions[t]]

-----------------------------------------------------------------------------
(* The middleware *)

\* The session of a cookie: its row's, or an empty one without a token.
LoadSession(t) ==
  IF ByToken(t) THEN [token |-> t, value |-> sessions[t].user]
  ELSE [token |-> NoToken, value |-> Nobody]

Loaded(q, pc, b, user) ==
  LET session == LoadSession(cookie[b])
  IN  /\ server = "serving" /\ request[q].pc = "idle"
      /\ request' = [request EXCEPT ![q] =
           [pc |-> pc, browser |-> b, token |-> session.token, value |-> session.value,
            user |-> user, expiry |-> 0, replaced |-> NoToken]]
      /\ UNCHANGED <<clock, server, sweeping, users, sessions, cookie, minted, history>>

\* The user a session names, unless the account is gone.
sessionUser(b) ==
  LET id == LoadSession(cookie[b]).value IN IF id \in users THEN id ELSE Nobody

\* A request of the browser's own pages.
loadSessionUser(q, b) == Loaded(q, "loaded", b, sessionUser(b))

\* A request to /api/v1, with the API key of an account that may not exist, or
\* none.  A key that names nobody leaves it to the cookie.
authenticate(q, b, key) ==
  Loaded(q, "serving", b, IF key \in users THEN key ELSE sessionUser(b))

-----------------------------------------------------------------------------
(* The handlers.  One that is refused, or that changes nothing, is Finish.     *)

Verified(q, u) == request' = [request EXCEPT ![q].pc = "verified", ![q].user = u]

\* createSession up to the password that matches.
createSession(q, u) ==
  /\ request[q].pc = "loaded" /\ u \in users
  /\ Verified(q, u)
  /\ UNCHANGED <<clock, server, sweeping, users, sessions, cookie, minted, history>>

\* createUser: auth.Register is one transaction.  A registered address is
\* refused.
createUser(q, u) ==
  /\ request[q].pc = "loaded" /\ u \notin users
  /\ users' = users \cup {u}
  /\ Verified(q, u)
  /\ UNCHANGED <<clock, server, sweeping, sessions, cookie, minted, history>>

\* Mutant: the session keeps the token it has.
KeptToken(q) == IF request[q].token = NoToken THEN Token \ minted ELSE {request[q].token}

NewToken(q) == Token \ minted

\* Mutant: the row of the old token stays.
RowStays(q) == sessions

RowRenewed(q) == Delete(request[q].token)

\* Mutant: the user id of the session is left alone.
UserKept(q) == request[q].value

UserPut(q) == request[q].user

\* startSession: RenewToken deletes the row the request came with, if there was
\* one, and goes on with a new token; the rest of the session is kept, and the
\* user id put over whatever was there.
startSession(q) ==
  /\ request[q].pc = "verified"
  /\ \E t \in NewToken(q) :
       /\ request' = [request EXCEPT ![q].pc = "renewed", ![q].token = t,
                        ![q].value = UserPut(q), ![q].expiry = clock + Lifetime,
                        ![q].replaced = request[q].token]
       /\ minted' = minted \cup {t}
       /\ granted' = [granted EXCEPT ![t] = request[q].user]
  /\ sessions' = RowRenewed(q)
  /\ UNCHANGED <<clock, server, sweeping, users, cookie, committed>>

\* The response begins: the modified session gets its row, before the cookie is
\* sent.
Commit(q) ==
  /\ request[q].pc = "renewed"
  /\ sessions' = [sessions EXCEPT ![request[q].token] =
       [user |-> request[q].value, expiry |-> request[q].expiry]]
  /\ committed' = committed \cup {request[q].token}
  /\ request' = [request EXCEPT ![q].pc = "answered"]
  /\ UNCHANGED <<clock, server, sweeping, users, cookie, minted, granted>>

\* deleteSession: Destroy, and a response that clears the cookie.
deleteSession(q) ==
  /\ request[q].pc = "loaded"
  /\ sessions' = Delete(request[q].token)
  /\ request' = [request EXCEPT ![q].pc = "answered", ![q].token = NoToken,
                   ![q].value = Nobody, ![q].replaced = request[q].token]
  /\ UNCHANGED <<clock, server, sweeping, users, cookie, minted, history>>

\* The response of a sign-in or a sign-out reaches the browser, which may have
\* received those of other requests since it sent this one.
Receive(q) ==
  /\ request[q].pc = "answered"
  /\ cookie' = [cookie EXCEPT ![request[q].browser] = request[q].token]
  /\ request' = [request EXCEPT ![q] = IdleRequest]
  /\ UNCHANGED <<clock, server, sweeping, users, sessions, minted, history>>

\* The request is served or refused without a change to the session, a
\* statement of it fails, or its response is lost.
Finish(q) ==
  /\ request[q].pc # "idle"
  /\ request' = [request EXCEPT ![q] = IdleRequest]
  /\ UNCHANGED <<clock, server, sweeping, users, sessions, cookie, minted, history>>

-----------------------------------------------------------------------------
(* cmd/travelmap *)

\* Mutant: the sweep ends with the first it did.
SweepOnce ==
  /\ sweeping
  /\ sessions' = DeleteExpired
  /\ sweeping' = FALSE
  /\ UNCHANGED <<clock, server, users, cookie, request, minted, history>>

\* A tick of sweepExpiredSessions.  One that fails is logged, and the next tick
\* is as good.
Sweep ==
  /\ sweeping
  /\ sessions' = DeleteExpired
  /\ UNCHANGED <<clock, server, sweeping, users, cookie, request, minted, history>>

serve ==
  /\ server = "stopped"
  /\ server' = "serving" /\ sweeping' = TRUE
  /\ UNCHANGED <<clock, users, sessions, cookie, request, minted, history>>

\* The server is told to stop: no sweep any more, and no request either, but
\* those under way go on.
Shutdown ==
  /\ server = "serving"
  /\ server' = "draining" /\ sweeping' = FALSE
  /\ UNCHANGED <<clock, users, sessions, cookie, request, minted, history>>

\* It has come to an end, shutdownTimeout has passed, or it was killed: the
\* requests under way end where they are.
Stop ==
  /\ server # "stopped"
  /\ server' = "stopped" /\ sweeping' = FALSE
  /\ request' = [q \in Request |-> IdleRequest]
  /\ UNCHANGED <<clock, users, sessions, cookie, minted, history>>

Tick ==
  /\ clock < MaxClock
  /\ clock' = clock + 1
  /\ UNCHANGED <<server, sweeping, users, sessions, cookie, request, minted, history>>

-----------------------------------------------------------------------------

RequestNext(q) ==
  \/ \E b \in Browser :
       loadSessionUser(q, b) \/ \E key \in User \cup {Nobody} : authenticate(q, b, key)
  \/ \E u \in User : createSession(q, u) \/ createUser(q, u)
  \/ startSession(q) \/ Commit(q) \/ deleteSession(q) \/ Receive(q) \/ Finish(q)

Next == Tick \/ serve \/ Shutdown \/ Stop \/ Sweep \/ \E q \in Request : RequestNext(q)

Spec == Init /\ [][Next]_vars

\* The ticker of the sweep keeps ticking.
FairSpec == Spec /\ WF_vars(Sweep)

-----------------------------------------------------------------------------

\* "One minted before the browser authenticated must not still be the one it
\* holds afterwards": what a sign-in or a sign-out replaced has no row, from the
\* moment its response is sent, whatever other requests that came with the same
\* cookie do.
ReplacedAreGone ==
  \A q \in Request : request[q].pc = "answered" /\ request[q].replaced # NoToken =>
    sessions[request[q].replaced] = NoRow

\* A session's user is who signed in with the password, or up, when its token
\* was issued, also where the browser was signed in as another user then.
SessionOfSignedIn ==
  \A t \in Token : sessions[t] # NoRow =>
    sessions[t].user = granted[t] /\ sessions[t].user \in users

\* Only a request that came with it, or its expiry, ends a session.
OnlyHolderEnds ==
  [][\A t \in Token : ByToken(t) /\ sessions'[t] = NoRow =>
       \E q \in Request : request[q] # IdleRequest /\ request[q].token = t]_vars

\* Sessions implement SessionLife: what resolves a token is its life.
life ==
  [t \in Token |->
     IF ByToken(t) THEN sessions[t] ELSE IF t \in committed THEN Ended ELSE Unused]

Promised == INSTANCE SessionLife WITH now <- clock, session <- life

SessionsKeepPromise == Promised!Spec

\* The rows of sessions that expired do not stay, on a server that keeps
\* running.
Swept ==
  <>[](server = "serving") =>
    \A t \in Token : (sessions[t] # NoRow /\ ~ ByToken(t)) ~> sessions[t] = NoRow

=============================================================================
