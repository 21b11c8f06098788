------------------------------ MODULE SessionLife ------------------------------
(***************************************************************************)
(* What a browser session promises, whatever rows, cookies and sweeps it   *)
(* is made of: a token is good for one user, from one sign-in, for no      *)
(* longer than session.lifetime, and once it has ended it stays so.        *)
(***************************************************************************)
EXTENDS Integers

CONSTANTS
  User, Token,
  Lifetime,        \* session.lifetime
  Unused, Ended    \* a token nobody was given, and one that is good no more

Session == [user : User, expiry : Int]

VARIABLES
  now,
  session          \* session[t]: Unused, whose t is and until when, or Ended

lifeVars == <<now, session>>

Init == now \in Int /\ session = [t \in Token |-> Unused]

SignIn(t, u, expiry) ==
  /\ session[t] = Unused
  /\ session' = [session EXCEPT ![t] = [user |-> u, expiry |-> expiry]]
  /\ UNCHANGED now

\* Signed out, replaced by a later sign-in, or never handed out.
End(t) ==
  /\ session[t] # Ended
  /\ session' = [session EXCEPT ![t] = Ended]
  /\ UNCHANGED now

Expired(s, time) == s \notin {Unused, Ended} /\ s.expiry <= time

Pass ==
  /\ now' = now + 1
  /\ session' = [t \in Token |-> IF Expired(session[t], now') THEN Ended ELSE session[t]]

Next ==
  \/ Pass
  \/ \E t \in Token : End(t) \/ \E u \in User, expiry \in now + 1 .. now + Lifetime : SignIn(t, u, expiry)

Spec == Init /\ [][Next]_lifeVars

=============================================================================
