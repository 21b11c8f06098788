------------------------------- MODULE MCSettings -------------------------------
(* 2 is out of the range of either mobile field; /settings stores half of what  *)
(* its body says.                                                              *)
EXTENDS Settings, Naturals

CONSTANTS m1, m2, w1

MCScaled == [f \in WebField |-> [v \in Value |-> v \div 2]]
MCInRange == [f \in MobileField |-> {0, 1}]
MCDefault == [f \in MobileField \cup WebField |-> 0]

=============================================================================
