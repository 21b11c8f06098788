--------------------------- MODULE AccountLinkProofs ---------------------------
(***************************************************************************)
(* A Swarm account is linked to whoever asked for it, and a state makes    *)
(* one link, for any users, browsers, states and callbacks.                *)
(*                                                                         *)
(* A state is in memory, or in the hands of one callback that consumed it, *)
(* or has made its link, or is lost: at any moment one of these, and never *)
(* an earlier one again (Spent).  Wherever it is, it is of the user and    *)
(* the time it was minted for (Minted, Held).                              *)
(***************************************************************************)
EXTENDS AccountLink, TLAPS

\* An entry in memory is that of its flow, and was good when the last state was
\* minted.
Minted ==
  \A s \in State : states[s] # None =>
    /\ flow[s] # None
    /\ states[s].user = flow[s].user
    /\ states[s].expiry = flow[s].minted + StateLifetime
    /\ lastMint <= states[s].expiry

\* Callback c got past the check of its state.
LetThrough(c) == callback[c] # None /\ callback[c].pc # "loaded"

\* What a callback brings was issued by its flow; one let through is of the
\* flow's user, and was so in time.
Held ==
  \A c \in Callback : callback[c] # None =>
    LET s == callback[c].state
    IN  /\ flow[s] # None /\ callback[c].code \in flow[s].codes
        /\ LetThrough(c) => /\ callback[c].user = flow[s].user
                            /\ callback[c].consumed <= flow[s].minted + StateLifetime

\* A state that was consumed is not in memory, one callback consumed it, and a
\* state that has made a link is neither in memory nor in a callback's hands.
Spent ==
  /\ \A c \in Callback : LetThrough(c) => states[callback[c].state] = None
  /\ \A c, d \in Callback :
       LetThrough(c) /\ LetThrough(d) /\ callback[c].state = callback[d].state => c = d
  /\ \A link \in links :
       /\ flow[link.state] # None /\ states[link.state] = None
       /\ \A c \in Callback : LetThrough(c) => callback[c].state # link.state

LinkInv == TypeOK /\ Minted /\ Held /\ Spent /\ LinkedAsStarted

-----------------------------------------------------------------------------
(* What the records are *)

\* An entry, a flow and a callback under way are records, None is not.
LEMMA Shapes ==
  ASSUME TypeOK
  PROVE  /\ \A s \in State : states[s] # None => states[s] \in Entry
         /\ \A s \in State : flow[s] # None => flow[s] \in Flow
         /\ \A c \in Callback : callback[c] # None =>
              /\ callback[c] \in Returned
              /\ callback[c].state \in State /\ callback[c].code \in Code
              /\ callback[c].user \in User \cup {Nobody} /\ callback[c].consumed \in Int
              /\ callback[c].pc \in {"loaded", "identifying", "creating"}
         /\ \A c \in Callback : LetThrough(c) =>
              callback[c].user \in User /\ callback[c].code \in FoursquareUser
BY DEF TypeOK, LetThrough, Returned, Code

\* Times are integers.
LEMMA Times ==
  ASSUME TypeOK
  PROVE  /\ StateLifetime \in Int /\ clock \in Int /\ lastMint \in Int /\ lastMint <= clock
         /\ \A s \in State : states[s] # None => states[s].expiry \in Int
         /\ \A s \in State : flow[s] # None => flow[s].minted \in Int
         /\ \A link \in links : link.consumed \in Int /\ link.state \in State
BY TimeAssumption, Shapes DEF TypeOK, Entry, Flow

\* None is no record.
LEMMA NotNone ==
  /\ \A e \in Entry : e # None
  /\ \A f \in Flow : f # None
  /\ \A r \in Returned : r # None
BY EntryAssumption

-----------------------------------------------------------------------------
(* Time, browsers and Foursquare *)

\* Time passes.
LEMMA TickPreserves == LinkInv /\ Tick => LinkInv'
<1> SUFFICES ASSUME LinkInv, Tick PROVE LinkInv'
  OBVIOUS
<1>1. clock' \in 0 .. MaxClock /\ lastMint' \in 0 .. clock'
  BY TimeAssumption DEF LinkInv, TypeOK, Tick
<1> QED
  BY <1>1 DEF LinkInv, TypeOK, AccountsType, Minted, Held, Spent, LetThrough,
       LinkedAsStarted, Linked, Tick

\* Who is signed in is nothing the rest depends on.
LEMMA SignInPreserves ==
  ASSUME LinkInv, NEW b \in Browser, NEW u \in User \cup {Nobody}, SignIn(b, u)
  PROVE  LinkInv'
BY DEF LinkInv, TypeOK, AccountsType, Minted, Held, Spent, LetThrough, LinkedAsStarted,
     Linked, SignIn

\* The codes of a flow grow, and the rest of it stays.
LEMMA AuthorizePreserves ==
  ASSUME LinkInv, NEW s \in State, NEW code \in Code, Authorize(s, code)
  PROVE  LinkInv'
<1>1. TypeOK
  BY DEF LinkInv
<1> DEFINE f == [flow[s] EXCEPT !.codes = @ \cup {code}]
<1>2. /\ flow[s] \in Flow /\ f \in Flow /\ f # None
      /\ f.user = flow[s].user /\ f.minted = flow[s].minted /\ flow[s].codes \subseteq f.codes
  BY <1>1, Shapes, NotNone DEF Authorize, Flow
<1>3. /\ flow' = [flow EXCEPT ![s] = f]
      /\ UNCHANGED <<accounts, clock, signedIn, states, callback, links, lastMint>>
  BY DEF Authorize
<1> HIDE DEF f
<1>4. TypeOK'
  BY <1>1, <1>2, <1>3 DEF TypeOK, AccountsType
<1>5. \A r \in State : flow[r] # None =>
        /\ flow'[r] # None /\ flow'[r].user = flow[r].user /\ flow'[r].minted = flow[r].minted
        /\ flow[r].codes \subseteq flow'[r].codes
  BY <1>1, <1>2, <1>3 DEF TypeOK
<1>6. Minted'
  BY <1>3, <1>5 DEF LinkInv, Minted
<1>7. Held'
  BY <1>1, <1>3, <1>5, Shapes DEF LinkInv, Held, LetThrough
<1>8. Spent'
  BY <1>1, <1>3, <1>5, Times DEF LinkInv, Spent, LetThrough
<1>9. LinkedAsStarted'
  BY <1>1, <1>3, <1>5, Times DEF LinkInv, LinkedAsStarted, Linked, Spent
<1> QED  BY <1>4, <1>6, <1>7, <1>8, <1>9 DEF LinkInv

-----------------------------------------------------------------------------
(* The handlers *)

\* A state is minted for a flow that has none.
LEMMA StartPreserves ==
  ASSUME LinkInv, NEW b \in Browser, NEW s \in State, foursquareOAuthStart(b, s)
  PROVE  LinkInv'
<1>1. TypeOK /\ signedIn[b] \in User /\ flow[s] = None
  BY DEF LinkInv, TypeOK, foursquareOAuthStart
<1> DEFINE e == [user |-> signedIn[b], expiry |-> clock + StateLifetime]
           f == [user |-> signedIn[b], browser |-> b, minted |-> clock, codes |-> {}]
<1>2. /\ e \in Entry /\ e # None /\ f \in Flow /\ f # None
      /\ e.user = f.user /\ e.expiry = f.minted + StateLifetime /\ clock <= e.expiry
  BY <1>1, Times, TimeAssumption, NotNone DEF Entry, Flow
<1>3. /\ states' = [prune EXCEPT ![s] = e]
      /\ flow' = [flow EXCEPT ![s] = f]
      /\ lastMint' = clock
      /\ UNCHANGED <<accounts, clock, signedIn, callback, links>>
  BY DEF foursquareOAuthStart, New
<1> HIDE DEF e, f
<1>4. TypeOK'
  <2>1. states' \in [State -> Entry \cup {None}]
    BY <1>1, <1>2, <1>3 DEF TypeOK, prune
  <2>2. lastMint' \in 0 .. clock'
    BY <1>1, <1>3, TimeAssumption DEF TypeOK
  <2> QED  BY <1>1, <1>2, <1>3, <2>1, <2>2 DEF TypeOK, AccountsType
<1>5. /\ states'[s] = e /\ flow'[s] = f
      /\ \A r \in State \ {s} :
           /\ flow'[r] = flow[r]
           /\ states'[r] # None => states'[r] = states[r] /\ clock <= states[r].expiry
           /\ states[r] = None => states'[r] = None
  BY <1>1, <1>3, Times DEF TypeOK, prune, Expired
<1>6. Minted'
  BY <1>1, <1>2, <1>3, <1>5 DEF LinkInv, Minted
<1>7. Held'
  BY <1>1, <1>3, <1>5, Shapes DEF LinkInv, Held, LetThrough
<1>8. Spent'
  BY <1>1, <1>3, <1>5, Shapes, Times DEF LinkInv, Held, Spent, LetThrough
<1>9. LinkedAsStarted'
  BY <1>1, <1>3, <1>5, Times DEF LinkInv, LinkedAsStarted, Linked, Spent
<1> QED  BY <1>4, <1>6, <1>7, <1>8, <1>9 DEF LinkInv

\* An account that is unlinked leaves its link in the past.
LEMMA DisconnectPreserves ==
  ASSUME LinkInv, NEW b \in Browser, foursquareDisconnect(b)
  PROVE  LinkInv'
<1>1. signedIn[b] \in User
  BY DEF LinkInv, TypeOK, foursquareDisconnect
<1>2. /\ accounts' = [accounts EXCEPT ![signedIn[b]] = Unlinked]
      /\ UNCHANGED <<clock, signedIn, states, flow, callback, links, lastMint>>
  BY DEF foursquareDisconnect, Disconnect
<1>3. TypeOK' /\ Minted' /\ Held' /\ Spent'
  BY <1>2 DEF LinkInv, TypeOK, AccountsType, Minted, Held, Spent, LetThrough
<1>4. LinkedAsStarted'
  BY <1>1, <1>2 DEF LinkInv, LinkedAsStarted, Linked, TypeOK, AccountsType
<1> QED  BY <1>3, <1>4 DEF LinkInv

\* The browser comes back with what its flow issued.
LEMMA ReturnPreserves ==
  ASSUME LinkInv, NEW c \in Callback, NEW s \in State, NEW code \in Code, Return(c, s, code)
  PROVE  LinkInv'
<1>1. TypeOK /\ flow[s] \in Flow /\ code \in flow[s].codes
  BY Shapes DEF LinkInv, Return
<1> DEFINE r == [pc |-> "loaded", user |-> signedIn[flow[s].browser], state |-> s,
                 code |-> code, consumed |-> 0]
<1>2. r \in Returned /\ r # None /\ r.pc = "loaded" /\ r.state = s /\ r.code = code
  <2>1. signedIn[flow[s].browser] \in User \cup {Nobody}
    BY <1>1 DEF TypeOK, Flow
  <2>2. r \in Returned
    BY <2>1 DEF Returned
  <2> QED  BY <2>2, NotNone
<1>3. /\ callback' = [callback EXCEPT ![c] = r]
      /\ UNCHANGED <<accounts, clock, signedIn, states, flow, links, lastMint>>
  BY DEF Return
<1> HIDE DEF r
<1>4. TypeOK'
  BY <1>1, <1>2, <1>3 DEF TypeOK, AccountsType
<1>5. callback'[c] = r /\ \A d \in Callback \ {c} : callback'[d] = callback[d]
  BY <1>1, <1>3 DEF TypeOK
<1>6. Minted' /\ LinkedAsStarted'
  BY <1>3 DEF LinkInv, Minted, LinkedAsStarted, Linked
<1>7. Held' /\ Spent'
  <2>1. \A d \in Callback : LetThrough(d)' => d # c /\ LetThrough(d)
    BY <1>2, <1>5 DEF LetThrough
  <2>2. Held'
    BY <1>1, <1>2, <1>3, <1>5, <2>1, NotNone DEF LinkInv, Held
  <2>3. Spent'
    BY <1>3, <1>5, <2>1 DEF LinkInv, Spent
  <2> QED  BY <2>2, <2>3
<1> QED  BY <1>4, <1>6, <1>7 DEF LinkInv

\* A callback consumes its state, and is let through if the state was good and
\* of the user.
LEMMA CallbackPreserves ==
  ASSUME LinkInv, NEW c \in Callback, foursquareOAuthCallback(c)
  PROVE  LinkInv'
<1> DEFINE s == callback[c].state
<1>1. /\ TypeOK /\ s \in State /\ ~ LetThrough(c)
      /\ callback[c] # None /\ callback[c] \in Returned
  BY Shapes DEF LinkInv, LetThrough, foursquareOAuthCallback
<1>2. /\ states' = [states EXCEPT ![s] = None]
      /\ UNCHANGED <<accounts, clock, signedIn, flow, links, lastMint>>
  BY DEF foursquareOAuthCallback, Consumed
<1>3. states' \in [State -> Entry \cup {None}]
  BY <1>1, <1>2 DEF TypeOK
<1>4. \A r \in State : states'[r] # None => r # s /\ states'[r] = states[r]
  BY <1>1, <1>2 DEF TypeOK
<1>5. Minted' /\ LinkedAsStarted'
  BY <1>2, <1>4 DEF LinkInv, Minted, LinkedAsStarted, Linked
<1>6. CASE ~ (Consumable(s) /\ RightUser(c) /\ callback[c].code # Refused)
  <2>1. callback' = [callback EXCEPT ![c] = None]
    BY <1>6 DEF foursquareOAuthCallback
  <2>2. callback'[c] = None /\ \A d \in Callback \ {c} : callback'[d] = callback[d]
    BY <1>1, <2>1 DEF TypeOK
  <2>3. TypeOK'
    BY <1>1, <1>2, <1>3, <2>1 DEF TypeOK, AccountsType
  <2>4. \A d \in Callback : LetThrough(d)' => d # c /\ LetThrough(d)
    BY <2>2 DEF LetThrough
  <2>5. Held'
    BY <1>2, <2>2, <2>4 DEF LinkInv, Held
  <2>6. Spent'
    BY <1>1, <1>2, <1>4, <2>2, <2>4, Shapes, Times DEF LinkInv, Spent
  <2> QED  BY <1>5, <2>3, <2>5, <2>6 DEF LinkInv
<1>7. CASE Consumable(s) /\ RightUser(c) /\ callback[c].code # Refused
  <2> DEFINE r == [callback[c] EXCEPT !.pc = "identifying", !.consumed = clock]
  <2>1. callback' = [callback EXCEPT ![c] = r]
    <3>1. callback' = [callback EXCEPT ![c].pc = "identifying", ![c].consumed = clock]
      BY <1>7 DEF foursquareOAuthCallback
    <3> QED  BY <1>1, <3>1 DEF TypeOK
  <2>2. /\ states[s] # None /\ states[s] \in Entry /\ clock <= states[s].expiry
        /\ callback[c].user = states[s].user
    BY <1>1, <1>7, Shapes, Times DEF Consumable, Expired, RightUser
  <2>3. /\ r \in Returned /\ r # None /\ r.pc = "identifying" /\ r.state = s
        /\ r.code = callback[c].code /\ r.user = callback[c].user /\ r.consumed = clock
    <3>1. callback[c].user \in User /\ callback[c].code \in FoursquareUser
      BY <1>1, <1>7, <2>2, Shapes DEF Entry, Code
    <3>2. r \in Returned
      BY <1>1, <3>1, Times DEF Returned
    <3> QED  BY <1>1, <3>2, NotNone DEF Returned
  <2> HIDE DEF r
  <2>4. callback'[c] = r /\ \A d \in Callback \ {c} : callback'[d] = callback[d]
    BY <1>1, <2>1 DEF TypeOK
  <2>5. TypeOK'
    BY <1>1, <1>2, <1>3, <2>1, <2>3 DEF TypeOK, AccountsType
  <2>6. \A d \in Callback : LetThrough(d)' => d = c \/ LetThrough(d)
    BY <2>4 DEF LetThrough
  <2>7. Held'
    <3>1. callback[c].user = flow[s].user /\ clock <= flow[s].minted + StateLifetime
      BY <1>1, <2>2 DEF LinkInv, Minted
    <3>2. flow[s] # None /\ callback[c].code \in flow[s].codes
      BY <1>1 DEF LinkInv, Held
    <3> QED  BY <1>2, <2>3, <2>4, <2>6, <3>1, <3>2 DEF LinkInv, Held
  <2>8. Spent'
    <3>1. \A d \in Callback : LetThrough(d) => callback[d].state # s
      BY <2>2 DEF LinkInv, Spent
    <3>2. \A link \in links : link.state # s
      BY <2>2 DEF LinkInv, Spent
    <3>3. states'[s] = None /\ \A r1 \in State : states[r1] = None => states'[r1] = None
      BY <1>1, <1>4, <1>2 DEF TypeOK
    <3>4. \A d \in Callback : LetThrough(d) => callback[d].state \in State
      BY <1>1, Shapes DEF LetThrough
    <3> QED  BY <1>1, <1>2, <2>3, <2>4, <2>6, <3>1, <3>2, <3>3, <3>4, Times DEF LinkInv, Spent
  <2> QED  BY <1>5, <2>5, <2>7, <2>8 DEF LinkInv
<1> QED  BY <1>6, <1>7

\* Foursquare says whose the code is.
LEMMA IdentifyPreserves ==
  ASSUME LinkInv, NEW c \in Callback, Identify(c)
  PROVE  LinkInv'
<1>1. TypeOK /\ callback[c] \in Returned /\ callback[c].pc = "identifying" /\ LetThrough(c)
  BY Shapes DEF LinkInv, Identify, LetThrough
<1> DEFINE r == [callback[c] EXCEPT !.pc = "creating"]
<1>2. /\ r \in Returned /\ r # None /\ r.pc = "creating" /\ r.state = callback[c].state
      /\ r.user = callback[c].user /\ r.code = callback[c].code
      /\ r.consumed = callback[c].consumed
  BY <1>1, NotNone DEF Returned
<1>3. /\ callback' = [callback EXCEPT ![c] = r]
      /\ UNCHANGED <<accounts, clock, signedIn, states, flow, links, lastMint>>
  BY DEF Identify
<1> HIDE DEF r
<1>4. TypeOK'
  BY <1>1, <1>2, <1>3 DEF TypeOK, AccountsType
<1>5. callback'[c] = r /\ \A d \in Callback \ {c} : callback'[d] = callback[d]
  BY <1>1, <1>3 DEF TypeOK
<1>6. \A d \in Callback : LetThrough(d)' <=> LetThrough(d)
  BY <1>1, <1>2, <1>5 DEF LetThrough
<1>7. Minted' /\ LinkedAsStarted'
  BY <1>3 DEF LinkInv, Minted, LinkedAsStarted, Linked
<1>8. Held'
  BY <1>1, <1>2, <1>3, <1>5, <1>6 DEF LinkInv, Held, LetThrough
<1>9. Spent'
  BY <1>1, <1>2, <1>3, <1>5, <1>6 DEF LinkInv, Spent
<1> QED  BY <1>4, <1>7, <1>8, <1>9 DEF LinkInv

\* Callback c ends.
LEMMA EndOfCallback ==
  ASSUME TypeOK, NEW c \in Callback, callback' = [callback EXCEPT ![c] = None]
  PROVE  /\ callback' \in [Callback -> Returned \cup {None}]
         /\ callback'[c] = None
         /\ \A d \in Callback \ {c} : callback'[d] = callback[d]
         /\ \A d \in Callback : LetThrough(d)' => d # c /\ LetThrough(d)
BY DEF TypeOK, LetThrough

\* The account is stored, and its link with it.
LEMMA CreatePreserves ==
  ASSUME LinkInv, NEW c \in Callback, CreateAccount(c)
  PROVE  LinkInv'
<1> DEFINE u == callback[c].user
           s == callback[c].state
           link == [user |-> u, foursquare |-> callback[c].code, state |-> s,
                    consumed |-> callback[c].consumed]
           row == [foursquare |-> callback[c].code, synced |-> Never]
<1>1. /\ TypeOK /\ LetThrough(c) /\ callback[c] # None
      /\ u \in User /\ callback[c].code \in FoursquareUser
      /\ s \in State /\ callback[c].consumed \in Int
  BY Shapes DEF LinkInv, CreateAccount, LetThrough
<1>2. /\ accounts' = [accounts EXCEPT ![u] = row]
      /\ links' = links \cup {link}
      /\ callback' = [callback EXCEPT ![c] = None]
      /\ UNCHANGED <<clock, signedIn, states, flow, lastMint>>
  BY DEF CreateAccount, Create, Created
<1>3. link.user = u /\ link.foursquare = callback[c].code /\ link.state = s
      /\ link.consumed = callback[c].consumed /\ row.foursquare = callback[c].code
  OBVIOUS
<1>4. accounts'[u] = row /\ \A v \in User \ {u} : accounts'[v] = accounts[v]
  BY <1>1, <1>2 DEF TypeOK, AccountsType
<1>5. TypeOK'
  <2>1. row \in Account
    BY <1>1 DEF Account
  <2>2. link \in [user : User, foursquare : FoursquareUser, state : State, consumed : Int]
    BY <1>1
  <2> HIDE DEF row, link
  <2> QED  BY <1>1, <1>2, <2>1, <2>2, EndOfCallback DEF TypeOK, AccountsType
<1> HIDE DEF row, link
<1>6. Minted' /\ Held'
  <2> HIDE DEF s, u
  <2> QED  BY <1>1, <1>2, EndOfCallback DEF LinkInv, Minted, Held
<1>7. Spent'
  <2>1. flow[s] # None /\ states[s] = None
    BY <1>1 DEF LinkInv, Held, Spent
  <2>2. \A d \in Callback : LetThrough(d)' => callback'[d].state # s
    BY <1>1, <1>2, EndOfCallback DEF LinkInv, Spent
  <2>3. \A d \in Callback : LetThrough(d)' => d # c /\ LetThrough(d) /\ callback'[d] = callback[d]
    BY <1>1, <1>2, EndOfCallback
  <2> HIDE DEF s, u
  <2>4. \A d \in Callback : LetThrough(d)' => states'[callback'[d].state] = None
    BY <1>2, <2>3 DEF LinkInv, Spent
  <2>5. \A d, e \in Callback :
          LetThrough(d)' /\ LetThrough(e)' /\ callback'[d].state = callback'[e].state => d = e
    BY <2>3 DEF LinkInv, Spent
  <2>6. ASSUME NEW l \in links'
        PROVE  /\ flow'[l.state] # None /\ states'[l.state] = None
               /\ \A d \in Callback : LetThrough(d)' => callback'[d].state # l.state
    <3>1. CASE l \in links
      BY <1>2, <2>3, <3>1 DEF LinkInv, Spent
    <3>2. CASE l = link
      BY <1>2, <1>3, <2>1, <2>2, <3>2
    <3> QED  BY <1>2, <3>1, <3>2
  <2> QED  BY <2>4, <2>5, <2>6 DEF Spent
<1>8. LinkedAsStarted'
  <2>1. /\ flow[s].user = u /\ callback[c].code \in flow[s].codes
        /\ callback[c].consumed <= flow[s].minted + StateLifetime
    BY <1>1 DEF LinkInv, Held
  <2>2. \A l \in links' :
          /\ flow'[l.state].user = l.user /\ l.foursquare \in flow'[l.state].codes
          /\ l.consumed <= flow'[l.state].minted + StateLifetime
    BY <1>2, <1>3, <2>1 DEF LinkInv, LinkedAsStarted
  <2>3. \A v \in User : Linked(v)' =>
          \E l \in links' : l.user = v /\ l.foursquare = accounts'[v].foursquare
    BY <1>2, <1>3, <1>4 DEF LinkInv, LinkedAsStarted, Linked
  <2> QED  BY <2>2, <2>3 DEF LinkedAsStarted
<1> QED  BY <1>5, <1>6, <1>7, <1>8 DEF LinkInv

\* A callback that is given up leaves its state spent.
LEMMA AbandonPreserves ==
  ASSUME LinkInv, NEW c \in Callback, Abandon(c)
  PROVE  LinkInv'
<1>1. /\ TypeOK /\ callback' = [callback EXCEPT ![c] = None]
      /\ UNCHANGED <<accounts, clock, signedIn, states, flow, links, lastMint>>
  BY DEF LinkInv, Abandon
<1>2. TypeOK'
  BY <1>1, EndOfCallback DEF TypeOK, AccountsType
<1>3. Minted' /\ LinkedAsStarted'
  BY <1>1 DEF LinkInv, Minted, LinkedAsStarted, Linked
<1>4. Held' /\ Spent'
  BY <1>1, EndOfCallback DEF LinkInv, Held, Spent
<1> QED  BY <1>2, <1>3, <1>4 DEF LinkInv

\* A restart loses what was in memory, and keeps what was stored.
LEMMA RestartPreserves == LinkInv /\ Restart => LinkInv'
<1> SUFFICES ASSUME LinkInv, Restart PROVE LinkInv'
  OBVIOUS
<1>1. TypeOK' /\ \A s \in State : states'[s] = None
  BY DEF LinkInv, TypeOK, AccountsType, Restart
<1>2. \A c \in Callback : callback'[c] = None
  BY DEF Restart
<1>3. Minted' /\ Held' /\ LinkedAsStarted'
  BY <1>1, <1>2 DEF LinkInv, Minted, Held, LinkedAsStarted, Linked, Restart
<1>4. Spent'
  BY <1>1, <1>2, Times DEF LinkInv, Spent, LetThrough, Restart
<1> QED  BY <1>1, <1>3, <1>4 DEF LinkInv

-----------------------------------------------------------------------------

\* Wherever a state is, it is of the flow it was minted for, and it is in one
\* place.
THEOREM LinkInvariant == Spec => []LinkInv
<1>1. Init => LinkInv
  BY TimeAssumption
     DEF Init, AccountsInit, LinkInv, TypeOK, AccountsType, Minted, Held, Spent, LetThrough,
         LinkedAsStarted, Linked
<1>2. LinkInv /\ [Next]_vars => LinkInv'
  <2> SUFFICES ASSUME LinkInv, [Next]_vars PROVE LinkInv'
    OBVIOUS
  <2>1. CASE Tick \/ Restart
    BY <2>1, TickPreserves, RestartPreserves
  <2>2. ASSUME NEW b \in Browser, foursquareDisconnect(b) PROVE LinkInv'
    BY <2>2, DisconnectPreserves
  <2>3. ASSUME NEW b \in Browser, NEW u \in User \cup {Nobody}, SignIn(b, u) PROVE LinkInv'
    BY <2>3, SignInPreserves
  <2>4. ASSUME NEW b \in Browser, NEW s \in State, foursquareOAuthStart(b, s) PROVE LinkInv'
    BY <2>4, StartPreserves
  <2>5. ASSUME NEW s \in State, NEW code \in Code, Authorize(s, code) PROVE LinkInv'
    BY <2>5, AuthorizePreserves
  <2>6. ASSUME NEW s \in State, NEW code \in Code, NEW c \in Callback, Return(c, s, code)
        PROVE  LinkInv'
    BY <2>6, ReturnPreserves
  <2>7. ASSUME NEW c \in Callback,
               foursquareOAuthCallback(c) \/ Identify(c) \/ CreateAccount(c) \/ Abandon(c)
        PROVE  LinkInv'
    BY <2>7, CallbackPreserves, IdentifyPreserves, CreatePreserves, AbandonPreserves
  <2>8. CASE UNCHANGED vars
    BY <2>8 DEF vars, LinkInv, TypeOK, AccountsType, Minted, Held, Spent, LetThrough,
         LinkedAsStarted, Linked
  <2> QED
    BY <2>1, <2>2, <2>3, <2>4, <2>5, <2>6, <2>7, <2>8 DEF Next
<1> QED  BY <1>1, <1>2, PTL DEF Spec

\* The variables of a link in the making keep their types.
THEOREM TypeCorrect == Spec => []TypeOK
<1>1. LinkInv => TypeOK
  BY DEF LinkInv
<1> QED  BY <1>1, LinkInvariant, PTL

\* An account is linked to a user who asked for it, to one that was allowed in
\* answer to that request, and in time, whoever the browser is signed in as.
THEOREM AlwaysLinkedAsStarted == Spec => []LinkedAsStarted
<1>1. LinkInv => LinkedAsStarted
  BY DEF LinkInv
<1> QED  BY <1>1, LinkInvariant, PTL

\* Memory holds no state that had expired when the last one was minted.
THEOREM AbandonedAlwaysGo == Spec => []AbandonedStatesGo
<1>1. LinkInv => AbandonedStatesGo
  BY DEF LinkInv, Minted, AbandonedStatesGo
<1> QED  BY <1>1, LinkInvariant, PTL

\* A state makes one link, however often and however late the browser comes
\* back with it.
THEOREM OneLinkForEachState == Spec => OneLinkPerState
<1>1. LinkInv /\ [Next]_vars =>
        [\A link \in links' \ links : \A other \in links : other.state # link.state]_vars
  <2> SUFFICES ASSUME LinkInv, Next, NEW link \in links' \ links, NEW other \in links
               PROVE  other.state # link.state
    OBVIOUS
  <2>1. PICK c \in Callback : CreateAccount(c)
    BY DEF Next, Tick, Restart, foursquareDisconnect, SignIn, foursquareOAuthStart, Authorize,
           Return, foursquareOAuthCallback, Identify, Abandon
  <2>2. LetThrough(c) /\ link.state = callback[c].state
    BY <2>1 DEF CreateAccount, Created, LetThrough
  <2> QED  BY <2>2 DEF LinkInv, Spent
<1> QED  BY <1>1, LinkInvariant, PTL DEF Spec, OneLinkPerState

\* The link stored first stands, whatever else was let through beside it: no
\* other callback replaces or shares it, until its user disconnects.
THEOREM FirstLinkAlwaysStands == Spec => FirstLinkStands
<1>1. Init => OneOwner
  BY DEF Init, AccountsInit, OneOwner, Linked
<1>2. ASSUME LinkInv, NEW c \in Callback, CreateAccount(c)
      PROVE  \E u \in User : /\ ~ Linked(u)
                             /\ ByFoursquareUserID(callback[c].code) = {}
                             /\ accounts'[u].foursquare = callback[c].code
                             /\ \A v \in User \ {u} : accounts'[v] = accounts[v]
  <2> DEFINE u == callback[c].user
             row == [foursquare |-> callback[c].code, synced |-> Never]
  <2>1. u \in User /\ ~ Linked(u) /\ ByFoursquareUserID(callback[c].code) = {}
    BY <1>2, Shapes DEF LinkInv, CreateAccount, LetThrough, Create
  <2>2. accounts' = [accounts EXCEPT ![u] = row] /\ accounts \in [User -> Account \cup {Unlinked}]
    BY <1>2 DEF LinkInv, TypeOK, AccountsType, CreateAccount, Create
  <2>3. accounts'[u] = row /\ \A v \in User \ {u} : accounts'[v] = accounts[v]
    BY <2>1, <2>2
  <2> QED  BY <2>1, <2>3
<1>3. ASSUME LinkInv, NEW b \in Browser, foursquareDisconnect(b)
      PROVE  /\ signedIn[b] \in User /\ accounts'[signedIn[b]] = Unlinked /\ links' = links
             /\ \A v \in User \ {signedIn[b]} : accounts'[v] = accounts[v]
  BY <1>3 DEF LinkInv, TypeOK, AccountsType, foursquareDisconnect, Disconnect
<1>4. [Next]_vars => \/ accounts' = accounts
                     \/ \E c \in Callback : CreateAccount(c)
                     \/ \E b \in Browser : foursquareDisconnect(b)
  BY DEF Next, vars, Tick, Restart, SignIn, foursquareOAuthStart, Authorize, Return,
         foursquareOAuthCallback, Identify, Abandon
<1>5. OneOwner /\ LinkInv /\ [Next]_vars => OneOwner'
  <2> SUFFICES ASSUME OneOwner, LinkInv, [Next]_vars PROVE OneOwner'
    OBVIOUS
  <2>1. CASE accounts' = accounts
    BY <2>1 DEF OneOwner, Linked
  <2>2. ASSUME NEW c \in Callback, CreateAccount(c) PROVE OneOwner'
    BY <1>2, <2>2 DEF OneOwner, Linked, ByFoursquareUserID
  <2>3. ASSUME NEW b \in Browser, foursquareDisconnect(b) PROVE OneOwner'
    BY <1>3, <2>3 DEF OneOwner, Linked
  <2> QED  BY <1>4, <2>1, <2>2, <2>3
<1>6. LinkInv /\ [Next]_vars =>
        [\A u \in User : Linked(u) /\ accounts'[u] # accounts[u] =>
           /\ accounts'[u] = Unlinked /\ links' = links
           /\ \E b \in Browser : signedIn[b] = u]_vars
  <2> SUFFICES ASSUME LinkInv, [Next]_vars,
                      NEW u \in User, Linked(u), accounts'[u] # accounts[u]
               PROVE  /\ accounts'[u] = Unlinked /\ links' = links
                      /\ \E b \in Browser : signedIn[b] = u
    OBVIOUS
  <2>1. \A c \in Callback : ~ CreateAccount(c)
    BY <1>2
  <2>2. PICK b \in Browser : foursquareDisconnect(b)
    BY <1>4, <2>1
  <2> QED  BY <1>3, <2>2
<1> QED  BY <1>1, <1>5, <1>6, LinkInvariant, PTL DEF Spec, FirstLinkStands

=============================================================================
