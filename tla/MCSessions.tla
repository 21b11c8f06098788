------------------------------ MODULE MCSessions ------------------------------
(* Two requests of one browser, as many sign-ins as there are tokens,  *)
(* and a session that expires within the time that passes.                     *)
EXTENDS Sessions

=============================================================================
