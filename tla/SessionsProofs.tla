---------------------------- MODULE SessionsProofs ----------------------------
(***************************************************************************)
(* Browser sessions implement SessionLife, and a sign-in leaves nothing of *)
(* the session it replaced, for any users, browsers, requests and tokens.  *)
(*                                                                         *)
(* The invariant follows a token from the request that mints it to its     *)
(* row: until that request commits, the token has no row and is carried by *)
(* no other (Minting); a row, once deleted, is never written again, for    *)
(* only a token without a past is committed.                               *)
(***************************************************************************)
EXTENDS Sessions, TLAPS

\* A token gets its row once, from the request that minted it.
Minting ==
  \A q \in Request : request[q].pc = "renewed" =>
    /\ request[q].token \in minted \ committed
    /\ request[q].value \in users
    /\ granted[request[q].token] = request[q].value
    /\ request[q].expiry <= clock + Lifetime

\* No two requests mint the same token.
MintedApart ==
  \A p, q \in Request :
    request[p].pc = "renewed" /\ request[q].pc = "renewed" /\ request[p].token = request[q].token
      => p = q

\* Before it is answered, a request carries a token that had a row, or none,
\* and a verified one a user who exists.
Carries ==
  \A q \in Request :
    /\ request[q].pc \in {"loaded", "verified"} =>
         request[q].token \in committed \cup {NoToken}
    /\ request[q].pc = "verified" => request[q].user \in users

\* A replaced token had a row and has none.
Replaced ==
  \A q \in Request : request[q].pc \in {"renewed", "answered"} /\ request[q].replaced # NoToken =>
    request[q].replaced \in committed /\ sessions[request[q].replaced] = NoRow

RowsCommitted == \A t \in Token : sessions[t] # NoRow => t \in committed

SessionsInv ==
  /\ TypeOK /\ Minting /\ MintedApart /\ Carries /\ Replaced /\ RowsCommitted /\ SessionOfSignedIn

-----------------------------------------------------------------------------

\* Requests move on without touching anything but themselves.
LEMMA IdleType == IdleRequest.pc = "idle" /\ IdleRequest \notin Carried
BY DEF IdleRequest, Carried

LEMMA RequestType ==
  ASSUME TypeOK, NEW q \in Request, request[q].pc # "idle"
  PROVE  request[q] \in Carried
BY DEF TypeOK, IdleRequest

\* Deleting a row of sessions deletes no other.
LEMMA DeleteType ==
  ASSUME TypeOK, NEW t
  PROVE  /\ Delete(t) \in [Token -> Row \cup {NoRow}]
         /\ \A s \in Token : Delete(t)[s] = IF s = t THEN NoRow ELSE sessions[s]
BY DEF Delete, TypeOK

\* A request begins: it carries the token of a row, or none.
LEMMA LoadedPreserves ==
  ASSUME SessionsInv, NEW q \in Request, NEW pc \in {"loaded", "serving"}, NEW b \in Browser,
         NEW user \in User \cup {Nobody}, Loaded(q, pc, b, user)
  PROVE  SessionsInv'
<1> DEFINE session == LoadSession(cookie[b])
           new == [pc |-> pc, browser |-> b, token |-> session.token, value |-> session.value,
                   user |-> user, expiry |-> 0, replaced |-> NoToken]
<1>1. /\ session.token \in committed \cup {NoToken}
      /\ session.token \in Token \cup {NoToken} /\ session.value \in User \cup {Nobody}
  BY DEF SessionsInv, TypeOK, RowsCommitted, LoadSession, ByToken, Row
<1>2. new \in Carried /\ new.pc = pc /\ new.token = session.token
  <2> HIDE DEF session
  <2> QED  BY <1>1 DEF Carried
<1>3. /\ UNCHANGED <<clock, server, sweeping, users, sessions, cookie, minted, granted, committed>>
      /\ request' = [request EXCEPT ![q] = new]
  BY DEF Loaded, history
<1>4. request'[q] = new /\ \A p \in Request \ {q} : request'[p] = request[p]
  <2> HIDE DEF new
  <2> QED  BY <1>3 DEF SessionsInv, TypeOK
<1>5. TypeOK'
  <2> HIDE DEF new
  <2> QED  BY <1>2, <1>3 DEF SessionsInv, TypeOK, Row
<1>6. Minting' /\ MintedApart' /\ Carries' /\ Replaced'
  <2> HIDE DEF new, session
  <2>1. request'[q].pc \in {"loaded", "serving"} /\ request'[q].token \in committed \cup {NoToken}
    BY <1>1, <1>2, <1>4
  <2>2. Minting' /\ MintedApart' /\ Replaced'
    BY <1>3, <1>4, <2>1 DEF SessionsInv, Minting, MintedApart, Replaced
  <2>3. Carries'
    BY <1>3, <1>4, <2>1 DEF SessionsInv, Carries
  <2> QED  BY <2>2, <2>3
<1>7. RowsCommitted' /\ SessionOfSignedIn'
  BY <1>3 DEF SessionsInv, RowsCommitted, SessionOfSignedIn
<1> QED  BY <1>5, <1>6, <1>7 DEF SessionsInv

\* The password matches, or the account was created.
LEMMA VerifiedPreserves ==
  ASSUME SessionsInv, NEW q \in Request, NEW u \in User, createSession(q, u) \/ createUser(q, u)
  PROVE  SessionsInv'
<1>1. /\ UNCHANGED <<clock, server, sweeping, sessions, cookie, minted, granted, committed>>
      /\ users' \subseteq User /\ users \cup {u} \subseteq users'
      /\ request[q].pc = "loaded"
      /\ request' = [request EXCEPT ![q].pc = "verified", ![q].user = u]
  BY DEF createSession, createUser, Verified, history, SessionsInv, TypeOK
<1>2. request[q] \in Carried
  BY <1>1, RequestType DEF SessionsInv
<1>3. \A p \in Request \ {q} : request'[p] = request[p]
  BY <1>1 DEF SessionsInv, TypeOK
<1>4. /\ request'[q] \in Carried /\ request'[q].pc = "verified" /\ request'[q].user = u
      /\ request'[q].token = request[q].token
  BY <1>1, <1>2 DEF Carried, SessionsInv, TypeOK
<1>5. TypeOK'
  BY <1>1, <1>4 DEF SessionsInv, TypeOK, Row
<1>6. Minting' /\ MintedApart' /\ Carries' /\ Replaced'
  <2>1. /\ request[q].pc = "loaded" /\ users \cup {u} \subseteq users'
        /\ UNCHANGED <<clock, sessions, minted, granted, committed>>
    BY <1>1
  <2> QED  BY <1>3, <1>4, <2>1 DEF SessionsInv, Minting, MintedApart, Carries, Replaced
<1>7. RowsCommitted' /\ SessionOfSignedIn'
  BY <1>1 DEF SessionsInv, RowsCommitted, SessionOfSignedIn
<1> QED  BY <1>5, <1>6, <1>7 DEF SessionsInv

\* The old row goes, a token without a past is carried instead.
LEMMA StartSessionPreserves ==
  ASSUME SessionsInv, NEW q \in Request, startSession(q)
  PROVE  SessionsInv'
<1>1. PICK t \in Token \ minted :
        /\ request' = [request EXCEPT ![q].pc = "renewed", ![q].token = t,
                         ![q].value = request[q].user, ![q].expiry = clock + Lifetime,
                         ![q].replaced = request[q].token]
        /\ minted' = minted \cup {t}
        /\ granted' = [granted EXCEPT ![t] = request[q].user]
  BY DEF startSession, NewToken, UserPut
<1>2. /\ UNCHANGED <<clock, server, sweeping, users, cookie, committed>>
      /\ request[q].pc = "verified" /\ sessions' = Delete(request[q].token)
  BY DEF startSession, RowRenewed
<1>3. /\ request[q] \in Carried /\ request[q].user \in users /\ users \subseteq User
      /\ request[q].token \in committed \cup {NoToken} /\ committed \subseteq minted
  BY <1>2, RequestType DEF SessionsInv, Carries, TypeOK
<1>4. \A p \in Request \ {q} : request'[p] = request[p]
  BY <1>1 DEF SessionsInv, TypeOK
<1>5. /\ request'[q].pc = "renewed" /\ request'[q].token = t
      /\ request'[q].value = request[q].user /\ request'[q].expiry = clock + Lifetime
      /\ request'[q].replaced = request[q].token
  BY <1>1, <1>3 DEF Carried, SessionsInv, TypeOK
<1>6. request'[q] \in Carried
  <2>1. clock + Lifetime \in Int
    BY LifetimeAssumption DEF SessionsInv, TypeOK
  <2>2. /\ t \in Token /\ request[q].user \in User
        /\ request[q].token \in Token \cup {NoToken}
    BY <1>3 DEF Carried
  <2> DEFINE e == clock + Lifetime
  <2> HIDE DEF e
  <2>3. request'[q] = [request[q] EXCEPT !.pc = "renewed", !.token = t, !.value = request[q].user,
                         !.expiry = e, !.replaced = request[q].token]
    BY <1>1 DEF e, SessionsInv, TypeOK
  <2> QED  BY <1>3, <2>1, <2>2, <2>3 DEF Carried, e
<1>7. /\ sessions' \in [Token -> Row \cup {NoRow}]
      /\ \A s \in Token : sessions'[s] = IF s = request[q].token THEN NoRow ELSE sessions[s]
  BY <1>2, DeleteType DEF SessionsInv
<1>8. /\ granted' \in [Token -> User \cup {Nobody}] /\ granted'[t] = request[q].user
      /\ \A s \in Token \ {t} : granted'[s] = granted[s]
  BY <1>1, <1>3 DEF SessionsInv, TypeOK
<1>9. clock \in Int /\ Lifetime \in Int
  BY LifetimeAssumption DEF SessionsInv, TypeOK
<1>10. TypeOK'
  <2>1. request' \in [Request -> Carried \cup {IdleRequest}]
    BY <1>1, <1>6 DEF SessionsInv, TypeOK
  <2>2. minted' \subseteq Token /\ committed' \subseteq minted'
    BY <1>1, <1>2, <1>3 DEF SessionsInv, TypeOK
  <2> QED  BY <1>2, <1>7, <1>8, <2>1, <2>2 DEF SessionsInv, TypeOK, Row
<1> DEFINE tok == request[q].token
<1>11. minted' = minted \cup {t} /\ t \notin minted /\ t \notin committed
  BY <1>1, <1>3
<1>12. \A p \in Request : request[p].pc = "renewed" => request[p].token \in minted \cap Token
  BY DEF SessionsInv, Minting, TypeOK
<1>13. Minting'
  <2> SUFFICES ASSUME NEW p \in Request, request'[p].pc = "renewed"
               PROVE  /\ request'[p].token \in minted' \ committed
                      /\ request'[p].value \in users
                      /\ granted'[request'[p].token] = request'[p].value
                      /\ request'[p].expiry <= clock + Lifetime
    BY <1>2 DEF Minting
  <2>1. CASE p = q
    BY <1>3, <1>5, <1>8, <1>9, <1>11, <2>1
  <2>2. CASE p # q
    BY <1>4, <1>8, <1>11, <1>12, <2>2 DEF SessionsInv, Minting
  <2> QED  BY <2>1, <2>2
<1>14. MintedApart'
  BY <1>4, <1>5, <1>11, <1>12 DEF SessionsInv, MintedApart
<1>15. Carries'
  BY <1>2, <1>4, <1>5 DEF SessionsInv, Carries
<1>16. Replaced'
  <2> SUFFICES ASSUME NEW p \in Request, request'[p].pc \in {"renewed", "answered"},
                      request'[p].replaced # NoToken
               PROVE  request'[p].replaced \in committed /\ sessions'[request'[p].replaced] = NoRow
    BY <1>2 DEF Replaced
  <2>1. committed \subseteq Token
    BY DEF SessionsInv, TypeOK
  <2>2. CASE p = q
    BY <1>3, <1>5, <1>7, <2>1, <2>2
  <2>3. CASE p # q
    BY <1>4, <1>7, <2>1, <2>3 DEF SessionsInv, Replaced
  <2> QED  BY <2>2, <2>3
<1>17. RowsCommitted'
  BY <1>2, <1>7 DEF SessionsInv, RowsCommitted
<1>18. SessionOfSignedIn'
  BY <1>2, <1>7, <1>8, <1>11 DEF SessionsInv, RowsCommitted, SessionOfSignedIn
<1> QED  BY <1>10, <1>13, <1>14, <1>15, <1>16, <1>17, <1>18 DEF SessionsInv

\* The minted token gets its row.
LEMMA CommitPreserves ==
  ASSUME SessionsInv, NEW q \in Request, Commit(q)
  PROVE  SessionsInv'
<1> DEFINE t == request[q].token
           row == [user |-> request[q].value, expiry |-> request[q].expiry]
<1>1. /\ UNCHANGED <<clock, server, sweeping, users, cookie, minted, granted>>
      /\ request[q].pc = "renewed"
      /\ sessions' = [sessions EXCEPT ![t] = row]
      /\ committed' = committed \cup {t}
      /\ request' = [request EXCEPT ![q].pc = "answered"]
  BY DEF Commit
<1>2. /\ request[q] \in Carried /\ t \in minted \ committed /\ t \in Token
      /\ request[q].value \in users /\ granted[t] = request[q].value
      /\ request[q].value \in User /\ request[q].expiry \in Int
  BY <1>1, RequestType DEF SessionsInv, Minting, TypeOK, Carried
<1>3. row \in Row /\ row # NoRow /\ row.user = granted[t]
  BY <1>2, RowAssumption DEF Row
<1>4. \A p \in Request \ {q} : request'[p] = request[p]
  BY <1>1 DEF SessionsInv, TypeOK
<1>5. /\ request'[q] \in Carried /\ request'[q].pc = "answered"
      /\ request'[q].replaced = request[q].replaced
  BY <1>1, <1>2 DEF Carried, SessionsInv, TypeOK
<1>6. /\ sessions' \in [Token -> Row \cup {NoRow}] /\ sessions'[t] = row
      /\ \A s \in Token \ {t} : sessions'[s] = sessions[s]
  <2> HIDE DEF row
  <2> QED  BY <1>1, <1>2, <1>3 DEF SessionsInv, TypeOK
<1> HIDE DEF row
<1>7. TypeOK'
  <2>1. request' \in [Request -> Carried \cup {IdleRequest}]
    BY <1>1, <1>5 DEF SessionsInv, TypeOK
  <2> QED  BY <1>1, <1>2, <1>6, <2>1 DEF SessionsInv, TypeOK, Row
<1>8. \A p \in Request \ {q} : request[p].pc = "renewed" => request[p].token # t
  BY <1>1 DEF SessionsInv, MintedApart
<1>9. Minting' /\ MintedApart' /\ Carries'
  <2>1. UNCHANGED <<clock, users, minted, granted>> /\ committed' = committed \cup {t}
    BY <1>1
  <2> HIDE DEF t
  <2> QED  BY <1>4, <1>5, <1>8, <2>1 DEF SessionsInv, Minting, MintedApart, Carries
<1>10. Replaced'
  <2> SUFFICES ASSUME NEW p \in Request, request'[p].pc \in {"renewed", "answered"},
                      request'[p].replaced # NoToken
               PROVE  request'[p].replaced \in committed' /\ sessions'[request'[p].replaced] = NoRow
    BY DEF Replaced
  <2>1. committed \subseteq Token /\ committed' = committed \cup {t}
    BY <1>1 DEF SessionsInv, TypeOK
  <2>2. request[p].pc \in {"renewed", "answered"} /\ request'[p].replaced = request[p].replaced
    <3>1. CASE p = q
      BY <1>1, <1>5, <3>1
    <3>2. CASE p # q
      BY <1>4, <3>2
    <3> QED  BY <3>1, <3>2
  <2>3. request[p].replaced \in committed /\ sessions[request[p].replaced] = NoRow
    BY <2>2 DEF SessionsInv, Replaced
  <2> QED  BY <1>2, <1>6, <2>1, <2>2, <2>3
<1>11. RowsCommitted' /\ SessionOfSignedIn'
  <2>1. UNCHANGED <<users, granted>> /\ committed' = committed \cup {t}
    BY <1>1
  <2> QED  BY <1>2, <1>3, <1>6, <2>1 DEF SessionsInv, RowsCommitted, SessionOfSignedIn, TypeOK
<1> QED  BY <1>7, <1>9, <1>10, <1>11 DEF SessionsInv

\* Rows may go at any time: no part of the invariant needs one.
LEMMA RowsMayGo ==
  ASSUME SessionsInv, sessions' \in [Token -> Row \cup {NoRow}],
         \A t \in Token : sessions'[t] \in {NoRow, sessions[t]},
         UNCHANGED <<users, granted, committed>>
  PROVE  RowsCommitted' /\ SessionOfSignedIn'
BY DEF SessionsInv, RowsCommitted, SessionOfSignedIn

\* A sign-out deletes the row it came with and carries nothing.
LEMMA DeleteSessionPreserves ==
  ASSUME SessionsInv, NEW q \in Request, deleteSession(q)
  PROVE  SessionsInv'
<1> DEFINE t == request[q].token
<1>1. /\ UNCHANGED <<clock, server, sweeping, users, cookie, minted, granted, committed>>
      /\ request[q].pc = "loaded" /\ sessions' = Delete(t)
      /\ request' = [request EXCEPT ![q].pc = "answered", ![q].token = NoToken,
                       ![q].value = Nobody, ![q].replaced = t]
  BY DEF deleteSession, history
<1>2. request[q] \in Carried /\ t \in committed \cup {NoToken} /\ committed \subseteq Token
  BY <1>1, RequestType DEF SessionsInv, Carries, TypeOK
<1>3. \A p \in Request \ {q} : request'[p] = request[p]
  BY <1>1 DEF SessionsInv, TypeOK
<1>4. request'[q] \in Carried /\ request'[q].pc = "answered" /\ request'[q].replaced = t
  <2>1. t \in Token \cup {NoToken}
    BY <1>2
  <2> HIDE DEF t
  <2> QED  BY <1>1, <1>2, <2>1 DEF Carried, SessionsInv, TypeOK
<1>5. /\ sessions' \in [Token -> Row \cup {NoRow}]
      /\ \A s \in Token : sessions'[s] = IF s = t THEN NoRow ELSE sessions[s]
  BY <1>1, DeleteType DEF SessionsInv
<1> HIDE DEF t
<1>6. TypeOK'
  BY <1>1, <1>4, <1>5 DEF SessionsInv, TypeOK, Row
<1>7. Minting' /\ MintedApart' /\ Carries'
  <2>1. UNCHANGED <<clock, users, minted, granted, committed>>
    BY <1>1
  <2> QED  BY <1>3, <1>4, <2>1 DEF SessionsInv, Minting, MintedApart, Carries
<1>8. Replaced'
  <2> SUFFICES ASSUME NEW p \in Request, request'[p].pc \in {"renewed", "answered"},
                      request'[p].replaced # NoToken
               PROVE  request'[p].replaced \in committed /\ sessions'[request'[p].replaced] = NoRow
    BY <1>1 DEF Replaced
  <2>1. CASE p = q
    BY <1>2, <1>4, <1>5, <2>1
  <2>2. CASE p # q
    BY <1>2, <1>3, <1>5, <2>2 DEF SessionsInv, Replaced
  <2> QED  BY <2>1, <2>2
<1>9. RowsCommitted' /\ SessionOfSignedIn'
  <2>1. UNCHANGED <<users, granted, committed>>
    BY <1>1
  <2> QED  BY <1>5, <2>1, RowsMayGo
<1> QED  BY <1>6, <1>7, <1>8, <1>9 DEF SessionsInv

\* Requests come to an end: their response was received or lost, they failed,
\* or the server stopped.
LEMMA RequestsEndPreserves ==
  ASSUME SessionsInv, NEW ended \in SUBSET Request,
         request' = [q \in Request |-> IF q \in ended THEN IdleRequest ELSE request[q]],
         UNCHANGED <<clock, users, sessions, minted, history>>,
         server' \in {server, "stopped"}, sweeping' \in BOOLEAN,
         cookie' \in [Browser -> Token \cup {NoToken}]
  PROVE  SessionsInv'
<1>1. \A q \in Request : request'[q].pc # "idle" => request'[q] = request[q]
  BY IdleType
<1>2. TypeOK'
  BY DEF SessionsInv, TypeOK, Row, history
<1>3. Minting' /\ MintedApart' /\ Carries' /\ Replaced'
  <2>1. UNCHANGED <<clock, users, sessions, minted, granted, committed>>
    BY DEF history
  <2>2. Minting' /\ MintedApart'
    BY <1>1, <2>1 DEF SessionsInv, Minting, MintedApart
  <2>3. Carries' /\ Replaced'
    BY <1>1, <2>1 DEF SessionsInv, Carries, Replaced
  <2> QED  BY <2>2, <2>3
<1>4. RowsCommitted' /\ SessionOfSignedIn'
  BY DEF SessionsInv, RowsCommitted, SessionOfSignedIn, history
<1> QED  BY <1>2, <1>3, <1>4 DEF SessionsInv

\* A request's own end is such a step, and the stop of the server another.
LEMMA EndPreserves ==
  ASSUME SessionsInv, Stop \/ \E q \in Request : Receive(q) \/ Finish(q)
  PROVE  SessionsInv'
<1>1. ASSUME NEW q \in Request, Receive(q) \/ Finish(q) PROVE SessionsInv'
  <2>1. request' = [p \in Request |-> IF p \in {q} THEN IdleRequest ELSE request[p]]
    BY <1>1 DEF Receive, Finish, SessionsInv, TypeOK
  <2>2. cookie' \in [Browser -> Token \cup {NoToken}]
    <3>1. CASE Receive(q)
      <4>1. request[q] \in Carried
        BY <3>1, RequestType DEF Receive, SessionsInv
      <4>2. request[q].token \in Token \cup {NoToken}
        BY <4>1 DEF Carried
      <4> QED  BY <3>1, <4>2 DEF Receive, SessionsInv, TypeOK
    <3>2. CASE Finish(q)
      BY <3>2 DEF Finish, SessionsInv, TypeOK
    <3> QED  BY <1>1, <3>1, <3>2
  <2>3. UNCHANGED <<clock, users, sessions, minted, history>> /\ server' = server /\ sweeping' \in BOOLEAN
    BY <1>1 DEF Receive, Finish, SessionsInv, TypeOK
  <2> QED  BY <2>1, <2>2, <2>3, RequestsEndPreserves
<1>2. CASE Stop
  <2>1. request' = [p \in Request |-> IF p \in Request THEN IdleRequest ELSE request[p]]
    BY <1>2 DEF Stop
  <2>2. /\ UNCHANGED <<clock, users, sessions, minted, history>> /\ server' = "stopped"
        /\ sweeping' \in BOOLEAN /\ cookie' \in [Browser -> Token \cup {NoToken}]
    BY <1>2 DEF Stop, SessionsInv, TypeOK
  <2> QED  BY <2>1, <2>2, RequestsEndPreserves
<1> QED  BY <1>1, <1>2

\* What the process does beside its requests, and time.
LEMMA OthersPreserve ==
  ASSUME SessionsInv, Tick \/ serve \/ Shutdown \/ Sweep \/ UNCHANGED vars
  PROVE  SessionsInv'
<1>1. /\ UNCHANGED <<users, cookie, request, minted, granted, committed>>
      /\ clock \in Int /\ clock' \in Int /\ clock <= clock'
  BY DEF Tick, serve, Shutdown, Sweep, vars, history, SessionsInv, TypeOK
<1>2. /\ sessions' \in [Token -> Row \cup {NoRow}]
      /\ \A t \in Token : sessions'[t] \in {NoRow, sessions[t]}
  BY DEF Tick, serve, Shutdown, Sweep, DeleteExpired, vars, SessionsInv, TypeOK
<1>3. TypeOK'
  <2>1. clock' \in 0 .. MaxClock
    BY LifetimeAssumption DEF Tick, serve, Shutdown, Sweep, vars, SessionsInv, TypeOK
  <2>2. server' \in {"stopped", "serving", "draining"} /\ sweeping' \in BOOLEAN
    BY DEF Tick, serve, Shutdown, Sweep, vars, SessionsInv, TypeOK
  <2> QED  BY <1>1, <1>2, <2>1, <2>2 DEF SessionsInv, TypeOK, Row
<1>4. Minting'
  <2> SUFFICES ASSUME NEW q \in Request, request[q].pc = "renewed"
               PROVE  request[q].expiry <= clock' + Lifetime
    BY <1>1 DEF SessionsInv, Minting
  <2>1. request[q].expiry <= clock + Lifetime /\ request[q] \in Carried
    BY RequestType DEF SessionsInv, Minting
  <2>2. request[q].expiry \in Int /\ Lifetime \in Int
    BY <2>1, LifetimeAssumption DEF Carried
  <2> QED  BY <1>1, <2>1, <2>2
<1>5. MintedApart' /\ Carries'
  BY <1>1 DEF SessionsInv, MintedApart, Carries
<1>6. Replaced'
  BY <1>1, <1>2 DEF SessionsInv, TypeOK, Replaced
<1>7. RowsCommitted' /\ SessionOfSignedIn'
  BY <1>1, <1>2, RowsMayGo
<1> QED  BY <1>3, <1>4, <1>5, <1>6, <1>7 DEF SessionsInv

-----------------------------------------------------------------------------

\* The invariant holds, wherever requests interleave and the server stops.
THEOREM SessionsInvariant == Spec => []SessionsInv
<1>1. Init => SessionsInv
  <2> SUFFICES ASSUME Init PROVE SessionsInv
    OBVIOUS
  <2>1. \A q \in Request : request[q].pc = "idle"
    BY IdleType DEF Init
  <2>2. TypeOK
    <3>1. 0 \in 0 .. MaxClock
      BY LifetimeAssumption
    <3> QED  BY <3>1 DEF Init, TypeOK
  <2>3. Minting /\ MintedApart /\ Carries /\ Replaced
    BY <2>1 DEF Minting, MintedApart, Carries, Replaced
  <2>4. RowsCommitted /\ SessionOfSignedIn
    BY DEF Init, RowsCommitted, SessionOfSignedIn
  <2> QED  BY <2>2, <2>3, <2>4 DEF SessionsInv
<1>2. SessionsInv /\ [Next]_vars => SessionsInv'
  <2> SUFFICES ASSUME SessionsInv, [Next]_vars PROVE SessionsInv'
    OBVIOUS
  <2>1. ASSUME NEW q \in Request, RequestNext(q) PROVE SessionsInv'
    <3>1. ASSUME NEW b \in Browser,
                 loadSessionUser(q, b) \/ \E key \in User \cup {Nobody} : authenticate(q, b, key)
          PROVE  SessionsInv'
      <4>1. sessionUser(b) \in User \cup {Nobody}
        BY DEF sessionUser, SessionsInv, TypeOK
      <4>2. CASE loadSessionUser(q, b)
        BY <4>1, <4>2, LoadedPreserves DEF loadSessionUser
      <4>3. ASSUME NEW key \in User \cup {Nobody}, authenticate(q, b, key) PROVE SessionsInv'
        BY <4>1, <4>3, LoadedPreserves DEF authenticate
      <4> QED  BY <3>1, <4>2, <4>3
    <3>2. ASSUME NEW u \in User, createSession(q, u) \/ createUser(q, u) PROVE SessionsInv'
      BY <3>2, VerifiedPreserves
    <3>3. CASE startSession(q) \/ Commit(q) \/ deleteSession(q)
      BY <3>3, StartSessionPreserves, CommitPreserves, DeleteSessionPreserves
    <3>4. CASE Receive(q) \/ Finish(q)
      BY <3>4, EndPreserves
    <3> QED  BY <2>1, <3>1, <3>2, <3>3, <3>4 DEF RequestNext
  <2>2. CASE Stop
    BY <2>2, EndPreserves
  <2>3. CASE Tick \/ serve \/ Shutdown \/ Sweep \/ UNCHANGED vars
    BY <2>3, OthersPreserve
  <2> QED  BY <2>1, <2>2, <2>3 DEF Next
<1> QED  BY <1>1, <1>2, PTL DEF Spec

\* Rows, cookies and requests keep their types.
THEOREM TypeCorrect == Spec => []TypeOK
<1>1. SessionsInv => TypeOK
  BY DEF SessionsInv
<1> QED  BY <1>1, SessionsInvariant, PTL

\* What a sign-in or a sign-out replaced is gone before its response is sent.
THEOREM ReplacedAlwaysGone == Spec => []ReplacedAreGone
<1>1. SessionsInv => ReplacedAreGone
  BY DEF SessionsInv, Replaced, ReplacedAreGone
<1> QED  BY <1>1, SessionsInvariant, PTL

\* A session is always that of whoever signed in for it.
THEOREM AlwaysOfSignedIn == Spec => []SessionOfSignedIn
<1>1. SessionsInv => SessionOfSignedIn
  BY DEF SessionsInv
<1> QED  BY <1>1, SessionsInvariant, PTL

-----------------------------------------------------------------------------
(* The refinement of SessionLife *)

\* A row that goes was named by the request that deletes it, or has expired.
LEMMA WhoEnds ==
  ASSUME SessionsInv, [Next]_vars, NEW t \in Token, ByToken(t), sessions'[t] = NoRow
  PROVE  \E q \in Request : request[q] # IdleRequest /\ request[q].token = t
<1>1. sessions[t] # NoRow /\ sessions' # sessions /\ ~ (sessions[t].expiry <= clock)
  BY DEF ByToken, SessionsInv, TypeOK, Row
<1>2. ~ (Tick \/ serve \/ Shutdown \/ Stop \/ Sweep \/ UNCHANGED vars)
  BY <1>1 DEF Tick, serve, Shutdown, Stop, Sweep, DeleteExpired, vars
<1>3. PICK q \in Request : RequestNext(q)
  BY <1>2 DEF Next
<1>4. startSession(q) \/ Commit(q) \/ deleteSession(q)
  BY <1>1, <1>3 DEF RequestNext, loadSessionUser, authenticate, Loaded, createSession,
     createUser, Receive, Finish
<1>5. request[q] # IdleRequest
  <2>1. request[q].pc \in {"verified", "renewed", "loaded"}
    BY <1>4 DEF startSession, Commit, deleteSession
  <2> QED  BY <2>1, IdleType
<1>6. CASE startSession(q) \/ deleteSession(q)
  <2>1. sessions' = Delete(request[q].token)
    BY <1>6 DEF startSession, deleteSession, RowRenewed
  <2> QED  BY <1>1, <1>5, <2>1, DeleteType DEF SessionsInv
<1>7. CASE Commit(q)
  <2>1. request[q].token \notin committed /\ t \in committed
    BY <1>1, <1>7 DEF Commit, SessionsInv, Minting, RowsCommitted
  <2>2. sessions'[t] = sessions[t]
    BY <1>7, <2>1 DEF Commit, SessionsInv, TypeOK
  <2> QED  BY <1>1, <2>2
<1> QED  BY <1>4, <1>6, <1>7

\* Nobody ends a session but who holds it.
THEOREM OnlyHolderAlwaysEnds == Spec => OnlyHolderEnds
<1>1. SessionsInv /\ [Next]_vars
        => [\A t \in Token : ByToken(t) /\ sessions'[t] = NoRow =>
              \E q \in Request : request[q] # IdleRequest /\ request[q].token = t]_vars
  BY WhoEnds
<1> QED  BY <1>1, SessionsInvariant, PTL DEF Spec, OnlyHolderEnds

\* The life of a token is decided by its own row.
LEMMA LifeSame ==
  ASSUME SessionsInv, UNCHANGED <<clock, committed>>, NEW t \in Token,
         sessions'[t] = sessions[t] \/ (sessions'[t] = NoRow /\ ~ ByToken(t))
  PROVE  life'[t] = life[t]
<1>1. ByToken(t)' <=> ByToken(t)
  BY DEF ByToken
<1>2. ByToken(t) => sessions'[t] = sessions[t]
  OBVIOUS
<1> QED  BY <1>1, <1>2 DEF life

\* A token that resolves is the row's, one that does not is ended or unused.
LEMMA LifeType ==
  ASSUME SessionsInv, NEW t \in Token
  PROVE  /\ ByToken(t) => life[t] = sessions[t] /\ life[t] \in Row /\ t \in committed
         /\ ~ ByToken(t) => life[t] = IF t \in committed THEN Ended ELSE Unused
BY DEF life, ByToken, SessionsInv, TypeOK, RowsCommitted

\* Deleting a row ends the session it was of, if it was good still.
LEMMA DeleteEnds ==
  ASSUME SessionsInv, NEW t \in Token \cup {NoToken}, sessions' = Delete(t),
         UNCHANGED <<clock, committed>>
  PROVE  [Promised!Next]_(Promised!lifeVars)
<1>1. \A s \in Token \ {t} : life'[s] = life[s]
  BY LifeSame, DeleteType DEF SessionsInv
<1>2. CASE t \in Token /\ ByToken(t)
  <2>1. life[t] # Ended
    BY <1>2, LifeType, RowAssumption
  <2>2. life'[t] = Ended
    BY <1>2, LifeType, DeleteType DEF SessionsInv, life, ByToken
  <2>3. life' = [life EXCEPT ![t] = Ended]
    BY <1>1, <1>2, <2>2 DEF life
  <2>4. Promised!End(t)
    BY <2>1, <2>3 DEF Promised!End
  <2> QED  BY <1>2, <2>4 DEF Promised!Next
<1>3. CASE ~ (t \in Token /\ ByToken(t))
  <2>1. \A s \in Token : life'[s] = life[s]
    BY <1>1, <1>3, LifeSame, DeleteType DEF SessionsInv
  <2>2. life' = life
    BY <2>1 DEF life
  <2> QED  BY <2>2 DEF Promised!lifeVars
<1> QED  BY <1>2, <1>3

\* A commit is the sign-in its token was minted for, unless the request took so
\* long that the session is over before it began.
LEMMA CommitSignsIn ==
  ASSUME SessionsInv, NEW q \in Request, Commit(q)
  PROVE  Promised!Next
<1>0. PICK t \in Token : t = request[q].token
  BY RequestType DEF Commit, SessionsInv, Minting, TypeOK
<1> DEFINE row == [user |-> request[q].value, expiry |-> request[q].expiry]
<1>1. /\ UNCHANGED clock /\ committed' = committed \cup {t}
      /\ request[q].pc = "renewed" /\ sessions' = [sessions EXCEPT ![t] = row]
  BY <1>0 DEF Commit
<1>2. /\ request[q] \in Carried /\ t \notin committed /\ sessions[t] = NoRow
      /\ request[q].value \in User /\ request[q].expiry <= clock + Lifetime
  BY <1>0, <1>1, RequestType DEF SessionsInv, Minting, TypeOK, RowsCommitted
<1>3. /\ request[q].expiry \in Int /\ clock \in Int /\ Lifetime \in Int
      /\ row \in Row /\ row # NoRow /\ row.expiry = request[q].expiry
  BY <1>2, LifetimeAssumption, RowAssumption DEF Carried, SessionsInv, TypeOK, Row
<1>4. sessions'[t] = row /\ \A s \in Token \ {t} : sessions'[s] = sessions[s]
  <2> HIDE DEF row
  <2> QED  BY <1>1, <1>2 DEF SessionsInv, TypeOK
<1>5. life[t] = Unused
  BY <1>2, LifeType DEF ByToken
<1>6. \A s \in Token \ {t} : life'[s] = life[s]
  BY <1>1, <1>4 DEF life, ByToken
<1>7. CASE row.expiry > clock
  <2>1. ByToken(t)'
    <3> HIDE DEF row
    <3> QED  BY <1>1, <1>2, <1>3, <1>4, <1>7 DEF ByToken
  <2>2. life'[t] = row
    BY <1>2, <1>4, <2>1 DEF life
  <2>3. life' = [life EXCEPT ![t] = row]
    BY <1>6, <2>2 DEF life
  <2>4. request[q].expiry \in clock + 1 .. clock + Lifetime
    BY <1>2, <1>3, <1>7
  <2>5. Promised!SignIn(t, request[q].value, request[q].expiry)
    BY <1>1, <1>5, <2>3 DEF Promised!SignIn
  <2> QED  BY <1>2, <2>4, <2>5 DEF Promised!Next
<1>8. CASE ~ (row.expiry > clock)
  <2>1. ~ ByToken(t)'
    <3> HIDE DEF row
    <3> QED  BY <1>1, <1>2, <1>3, <1>4, <1>8 DEF ByToken
  <2>2. life'[t] = Ended
    BY <1>1, <1>2, <2>1 DEF life
  <2>3. life' = [life EXCEPT ![t] = Ended]
    BY <1>6, <2>2 DEF life
  <2>4. Promised!End(t)
    BY <1>1, <1>5, <2>3, RowAssumption DEF Promised!End
  <2> QED  BY <1>2, <2>4 DEF Promised!Next
<1> QED  BY <1>7, <1>8

\* As time passes, the sessions whose expiry it reaches end.
LEMMA TickPasses ==
  ASSUME SessionsInv, Tick
  PROVE  Promised!Pass
<1>1. clock' = clock + 1 /\ sessions' = sessions /\ committed' = committed /\ clock \in Int
  BY DEF Tick, history, SessionsInv, TypeOK
<1>2. ASSUME NEW t \in Token
      PROVE  life'[t] = IF Promised!Expired(life[t], clock') THEN Ended ELSE life[t]
  <2>1. CASE ByToken(t)
    <3>1. /\ life[t] = sessions[t] /\ life[t] \notin {Unused, Ended} /\ t \in committed
          /\ sessions[t].expiry \in Int /\ sessions[t] # NoRow
      BY <2>1, LifeType, RowAssumption DEF Row
    <3>2. Promised!Expired(life[t], clock') <=> sessions[t].expiry <= clock'
      BY <3>1 DEF Promised!Expired
    <3>3. ByToken(t)' <=> sessions[t].expiry > clock'
      BY <1>1, <3>1 DEF ByToken
    <3>4. life'[t] = IF ByToken(t)' THEN sessions[t] ELSE Ended
      BY <1>1, <3>1 DEF life
    <3> QED  BY <1>1, <3>1, <3>2, <3>3, <3>4
  <2>2. CASE ~ ByToken(t)
    <3>1. life[t] \in {Unused, Ended} /\ ~ Promised!Expired(life[t], clock')
      BY <2>2, LifeType DEF Promised!Expired
    <3>2. ~ ByToken(t)'
      BY <1>1, <2>2 DEF ByToken, SessionsInv, TypeOK, Row
    <3> QED  BY <1>1, <2>2, <3>1, <3>2 DEF life
  <2> QED  BY <2>1, <2>2
<1>3. life' = [t \in Token |-> IF Promised!Expired(life[t], clock') THEN Ended ELSE life[t]]
  BY <1>2 DEF life
<1> QED  BY <1>1, <1>3 DEF Promised!Pass

\* Statements, cookies, sweeps and restarts together keep the promise: a token
\* is good for one user, from one sign-in, within its lifetime, and once ended
\* it stays so.
THEOREM KeepsPromise == Spec => SessionsKeepPromise
<1>1. Init => Promised!Init
  <2> SUFFICES ASSUME Init PROVE Promised!Init
    OBVIOUS
  <2>1. clock \in Int /\ \A t \in Token : life[t] = Unused
    BY DEF Init, life, ByToken
  <2>2. life = [t \in Token |-> Unused]
    BY <2>1 DEF life
  <2> QED  BY <2>1, <2>2 DEF Promised!Init
<1>2. SessionsInv /\ [Next]_vars => [Promised!Next]_(Promised!lifeVars)
  <2> SUFFICES ASSUME SessionsInv, [Next]_vars PROVE [Promised!Next]_(Promised!lifeVars)
    OBVIOUS
  <2>1. CASE Tick
    BY <2>1, TickPasses DEF Promised!Next
  <2>2. CASE Sweep \/ UNCHANGED <<clock, sessions, committed>>
    <3>1. UNCHANGED <<clock, committed>>
      BY <2>2 DEF Sweep, history
    <3>2. \A t \in Token : sessions'[t] = sessions[t] \/ (sessions'[t] = NoRow /\ ~ ByToken(t))
      BY <2>2 DEF Sweep, DeleteExpired, ByToken, SessionsInv, TypeOK, Row
    <3>3. \A t \in Token : life'[t] = life[t]
      BY <3>1, <3>2, LifeSame
    <3>4. life' = life
      BY <3>3 DEF life
    <3> QED  BY <3>1, <3>4 DEF Promised!lifeVars
  <2>3. ASSUME NEW q \in Request, startSession(q) \/ deleteSession(q)
        PROVE  [Promised!Next]_(Promised!lifeVars)
    <3>1. request[q].pc \in {"verified", "loaded"}
      BY <2>3 DEF startSession, deleteSession
    <3>2. request[q].token \in Token \cup {NoToken}
      BY <3>1, RequestType DEF SessionsInv, Carried
    <3>3. sessions' = Delete(request[q].token) /\ UNCHANGED <<clock, committed>>
      BY <2>3 DEF startSession, deleteSession, RowRenewed, history
    <3> QED  BY <3>2, <3>3, DeleteEnds
  <2>4. ASSUME NEW q \in Request, Commit(q) PROVE Promised!Next
    BY <2>4, CommitSignsIn
  <2>5. CASE serve \/ Shutdown \/ Stop \/ UNCHANGED vars
    BY <2>2, <2>5 DEF serve, Shutdown, Stop, vars, history
  <2>6. ASSUME NEW q \in Request, RequestNext(q), ~ startSession(q), ~ deleteSession(q), ~ Commit(q)
        PROVE  [Promised!Next]_(Promised!lifeVars)
    BY <2>2, <2>6 DEF RequestNext, loadSessionUser, authenticate, Loaded, createSession,
       createUser, Receive, Finish, history
  <2> QED  BY <2>1, <2>2, <2>3, <2>4, <2>5, <2>6 DEF Next
<1> QED  BY <1>1, <1>2, SessionsInvariant, PTL DEF Spec, SessionsKeepPromise, Promised!Spec

=============================================================================
